---- MODULE Spec2Model ----
(***************************************************************************)
(* Model of the Folderly backend actor (src/src/backend/main.mo): the      *)
(* per-principal folder tree, file metadata and tag catalogue, with the    *)
(* name-collision resolver, the ancestor walk and the cascading deletes.   *)
(*                                                                         *)
(* Text is a sequence of one-character strings; an optional value ?x is    *)
(* the sequence <<x>> and null is <<>>; a Map is a function from its keys. *)
(* A trap rolls the whole message back, so a trapping call leaves every    *)
(* collection unchanged and only produces a reject response.  response is  *)
(* the outcome of the last call: its method, and reply or reject with the  *)
(* trap message; the reply of a query also carries the value it returns.   *)
(* now is the value Time.now() returns; only the specifications with the  *)
(* Tick action move the clock, and only their properties read a date.      *)
(***************************************************************************)
EXTENDS Integers, Sequences, FiniteSets, TLC

VARIABLES userProfiles, userFiles, userFolders, userTags,
          userNextFileId, userNextFolderId, userNextTagId,
          now, response

data == <<userProfiles, userFiles, userFolders, userTags,
          userNextFileId, userNextFolderId, userNextTagId>>
vars == <<userProfiles, userFiles, userFolders, userTags,
          userNextFileId, userNextFolderId, userNextTagId, now, response>>

\* ---------------------------------------------------------------- values

null == <<>>
Some(x) == <<x>>
emptyMap == <<>>

Anonymous == "anonymous"

\* a fault: no caller is taken for the anonymous one
isAnonymousNever(caller) == FALSE

isAnonymous(caller) == caller = Anonymous

Min(S) == CHOOSE x \in S : \A y \in S : x <= y
Max(S) == CHOOSE x \in S : \A y \in S : x >= y

\* Map.add replaces the value of an existing key.
mapAdd(m, k, v) == (k :> v) @@ m
mapRemove(m, k) == [x \in DOMAIN m \ {k} |-> m[x]]
containsKey(m, k) == k \in DOMAIN m

\* ------------------------------------------------------------------ text

toLowerChar(c) ==
  CASE c = "A" -> "a"
    [] c = "B" -> "b"
    [] c = "X" -> "x"
    [] OTHER -> c

toLower(t) == [i \in 1..Len(t) |-> toLowerChar(t[i])]

Digits == <<"0", "1", "2", "3", "4", "5", "6", "7", "8", "9">>

isDigit(c) == \E d \in 1..Len(Digits) : Digits[d] = c
digitValue(c) == (CHOOSE d \in 1..Len(Digits) : Digits[d] = c) - 1

RECURSIVE natToText(_)
natToText(n) ==
  IF n < Len(Digits) THEN <<Digits[n + 1]>>
  ELSE natToText(n \div Len(Digits)) \o <<Digits[(n % Len(Digits)) + 1]>>

\* chars[i] of the source, whose arrays are indexed from 0
at(chars, i) == chars[i + 1]

isInfix(needle, haystack) ==
  \E i \in 0..(Len(haystack) - Len(needle)) :
    SubSeq(haystack, i + 1, i + Len(needle)) = needle

textContainsIgnoreCase(haystack, needle) ==
  isInfix(toLower(needle), toLower(haystack))

namesEqual(a, b) == toLower(a) = toLower(b)

textFromRange(chars, start, endExclusive) ==
  SubSeq(chars, start + 1,
         IF endExclusive < Len(chars) THEN endExclusive ELSE Len(chars))

RECURSIVE findOpenParen(_, _)
findOpenParen(chars, pos) ==
  IF pos = 0 THEN null
  ELSE IF at(chars, pos) = "(" THEN Some(pos)
  ELSE findOpenParen(chars, pos - 1)

\* the while loop of parseNameSuffix over chars[j .. numEnd-1]:
\* null when a non-digit is met, else ?num
RECURSIVE parseDigits(_, _, _, _)
parseDigits(chars, j, numEnd, num) ==
  IF j >= numEnd THEN Some(num)
  ELSE IF ~isDigit(at(chars, j)) THEN null
  ELSE parseDigits(chars, j + 1, numEnd, num * 10 + digitValue(at(chars, j)))

\* parseNameSuffix once the digits are read: num is null or ?number
parseNameSuffixNumber(name, pStart, num) ==
  IF num = null THEN <<name, 0>>
  ELSE <<textFromRange(name, 0, pStart - 1), num[1]>>

\* parseNameSuffix from its switch on parenStart
parseNameSuffixAt(name, parenStart) ==
  IF parenStart = null THEN <<name, 0>>
  ELSE IF parenStart[1] = 0 \/ at(name, parenStart[1] - 1) # " " THEN <<name, 0>>
  ELSE IF parenStart[1] + 1 >= Len(name) - 1 THEN <<name, 0>>
  ELSE parseNameSuffixNumber(name, parenStart[1],
         parseDigits(name, parenStart[1] + 1, Len(name) - 1, 0))

\* <<baseName, suffix>>
parseNameSuffix(name) ==
  IF Len(name) < 5 \/ at(name, Len(name) - 1) # ")" THEN <<name, 0>>
  ELSE parseNameSuffixAt(name, findOpenParen(name, Len(name) - 2))

\* the position of the last '.', or null
lastDotOf(chars) ==
  IF \E i \in 0..(Len(chars) - 1) : at(chars, i) = "."
  THEN Some(Max({i \in 0..(Len(chars) - 1) : at(chars, i) = "."}))
  ELSE null

\* the triple parseFileNameSuffix builds from a parsed base and an extension
withExtension(parsed, ext) == <<parsed[1], ext, parsed[2]>>

\* parseFileNameSuffix from its switch on lastDot
parseFileNameSuffixAt(name, lastDot) ==
  IF lastDot = null \/ lastDot[1] = 0
  THEN withExtension(parseNameSuffix(name), <<>>)
  ELSE withExtension(parseNameSuffix(textFromRange(name, 0, lastDot[1])),
                     textFromRange(name, lastDot[1] + 1, Len(name)))

\* <<baseName, ext, suffix>>
parseFileNameSuffix(name) == parseFileNameSuffixAt(name, lastDotOf(name))

\* ----------------------------------------------------------------- store

\* the map of a principal; a principal never seen has no entry yet, and the
\* getters of the source add an empty one
\* (getUserFilesOfAnyone is a fault: one map of files for all the principals)
getUserFilesOfAnyone(user) ==
  IF DOMAIN userFiles = {} THEN emptyMap
  ELSE userFiles[CHOOSE p \in DOMAIN userFiles : TRUE]
getUserFiles(user) ==
  IF user \in DOMAIN userFiles THEN userFiles[user] ELSE emptyMap
getUserFolders(user) ==
  IF user \in DOMAIN userFolders THEN userFolders[user] ELSE emptyMap
getUserTags(user) ==
  IF user \in DOMAIN userTags THEN userTags[user] ELSE emptyMap

\* the effect of a getter on the outer map when the call commits
touched(outer, user) ==
  IF user \in DOMAIN outer THEN outer ELSE mapAdd(outer, user, emptyMap)

\* the id the next gen*Id call returns
peekId(counters, user) ==
  IF user \in DOMAIN counters THEN counters[user] ELSE 1

genFileId(user) == peekId(userNextFileId, user)

\* a fault: the smallest id that no stored folder has is issued again
genFolderIdLowestFree(user) ==
  CHOOSE k \in 1..(Cardinality(DOMAIN getUserFolders(user)) + 1) :
    /\ k \notin DOMAIN getUserFolders(user)
    /\ \A j \in 1..(k - 1) : j \in DOMAIN getUserFolders(user)

genFolderId(user) == peekId(userNextFolderId, user)
genTagId(user) == peekId(userNextTagId, user)

\* a fault: the counter is stored without the increment
bumpedWithoutIncrement(counters, user, id) == mapAdd(counters, user, id)

\* the counter map after a gen*Id call that returned id
bumped(counters, user, id) == mapAdd(counters, user, id + 1)

\* ------------------------------------------------------- name resolution

\* the siblings both loops of getUniqueFolderName look at
folderSiblings(folders, parentId, excludeId) ==
  {k \in DOMAIN folders :
     /\ ~(excludeId # null /\ folders[k].id = excludeId[1])
     /\ folders[k].parentId = parentId}

\* the first if without its test of the number: the last sibling of the
\* same base decides
raisedBySuffixLastWins(existingBase, existingSuffix, baseName, maxSuffix) ==
  IF namesEqual(existingBase, baseName) THEN existingSuffix + 1 ELSE maxSuffix

\* first if of the loop body: a sibling of the same base raises maxSuffix
raisedBySuffix(existingBase, existingSuffix, baseName, maxSuffix) ==
  IF namesEqual(existingBase, baseName) /\ existingSuffix >= maxSuffix
  THEN existingSuffix + 1 ELSE maxSuffix

\* second if of the loop body: a sibling named as the base gives at least 1
raisedByBare(existingName, fullBase, maxSuffix) ==
  IF namesEqual(existingName, fullBase) /\ maxSuffix = 0 THEN 1 ELSE maxSuffix

\* the body of the second loop of getUniqueFolderName for one sibling
folderSuffixStep(name, parsed, baseName, maxSuffix) ==
  raisedByBare(name, baseName,
               raisedBySuffix(parsed[1], parsed[2], baseName, maxSuffix))

\* second loop of getUniqueFolderName, in the key order of Map.values()
RECURSIVE folderMaxSuffix(_, _, _, _)
folderMaxSuffix(folders, ids, baseName, maxSuffix) ==
  IF ids = {} THEN maxSuffix
  ELSE folderMaxSuffix(folders, ids \ {Min(ids)}, baseName,
         folderSuffixStep(folders[Min(ids)].name,
                          parseNameSuffix(folders[Min(ids)].name),
                          baseName, maxSuffix))

\* baseName # " (" # maxSuffix.toText() # ")"
numbered(baseName, maxSuffix) ==
  baseName \o <<" ", "(">> \o natToText(maxSuffix) \o <<")">>

\* getUniqueFolderName after its first return
numberedFolderName(folders, siblings, baseName) ==
  numbered(baseName, folderMaxSuffix(folders, siblings, baseName, 0))

\* getUniqueFolderName without its first return: every name is numbered
uniqueFolderNameAmongNumbering(folders, siblings, desiredName) ==
  numberedFolderName(folders, siblings, parseNameSuffix(desiredName)[1])

\* getUniqueFolderName over the siblings of the target parent
uniqueFolderNameAmong(folders, siblings, desiredName) ==
  IF toLower(desiredName) \notin {toLower(folders[k].name) : k \in siblings}
  THEN desiredName
  ELSE numberedFolderName(folders, siblings, parseNameSuffix(desiredName)[1])

getUniqueFolderName(user, parentId, desiredName, excludeId) ==
  uniqueFolderNameAmong(getUserFolders(user),
    folderSiblings(getUserFolders(user), parentId, excludeId), desiredName)

\* the files of a folder with the excluded one among them
fileSiblingsWithSelf(files, folderId, excludeId) ==
  {k \in DOMAIN files : files[k].folderId = folderId}

\* first loop of getUniqueFileName: the files that are compared
fileSiblings(files, folderId, excludeId) ==
  {k \in DOMAIN files :
     /\ ~(excludeId # null /\ files[k].id = excludeId[1])
     /\ files[k].folderId = folderId}

\* let fullBase = if (ext == "") { baseName } else { baseName # "." # ext }
fullBaseOf(baseName, ext) ==
  IF ext = <<>> THEN baseName ELSE baseName \o <<".">> \o ext

\* the loop body without its test of the extension
fileSuffixStepAnyExtension(name, parsed, baseName, ext, maxSuffix) ==
  raisedByBare(name, fullBaseOf(baseName, ext),
    raisedBySuffix(parsed[1], parsed[3], baseName, maxSuffix))

\* the body of the second loop of getUniqueFileName for one sibling
fileSuffixStep(name, parsed, baseName, ext, maxSuffix) ==
  raisedByBare(name, fullBaseOf(baseName, ext),
    IF namesEqual(parsed[2], ext)
    THEN raisedBySuffix(parsed[1], parsed[3], baseName, maxSuffix)
    ELSE maxSuffix)

RECURSIVE fileMaxSuffix(_, _, _, _, _)
fileMaxSuffix(files, ids, baseName, ext, maxSuffix) ==
  IF ids = {} THEN maxSuffix
  ELSE fileMaxSuffix(files, ids \ {Min(ids)}, baseName, ext,
         fileSuffixStep(files[Min(ids)].name,
                        parseFileNameSuffix(files[Min(ids)].name),
                        baseName, ext, maxSuffix))

\* the number put after the extension instead of before it
numberedAfterExtension(baseName, ext, maxSuffix) ==
  numbered(fullBaseOf(baseName, ext), maxSuffix)

\* the two results of getUniqueFileName, with and without an extension
numberedWithExtension(baseName, ext, maxSuffix) ==
  IF ext = <<>> THEN numbered(baseName, maxSuffix)
  ELSE baseName \o <<" ", "(">> \o natToText(maxSuffix) \o <<")", ".">> \o ext

\* getUniqueFileName after its first return
numberedFileName(files, siblings, parsed) ==
  numberedWithExtension(parsed[1], parsed[2],
    fileMaxSuffix(files, siblings, parsed[1], parsed[2], 0))

\* getUniqueFileName over the siblings of the target folder
uniqueFileNameAmong(files, siblings, desiredName) ==
  IF toLower(desiredName) \notin {toLower(files[k].name) : k \in siblings}
  THEN desiredName
  ELSE numberedFileName(files, siblings, parseFileNameSuffix(desiredName))

getUniqueFileName(user, folderId, desiredName, excludeId) ==
  uniqueFileNameAmong(getUserFiles(user),
    fileSiblings(getUserFiles(user), folderId, excludeId), desiredName)

\* ------------------------------------------------------------ validation

folderExists(user, folderId) == containsKey(getUserFolders(user), folderId)

\* TRUE when assertFolderExists returns, FALSE when it traps
assertFolderExists(user, folderId) ==
  folderId = null \/ folderExists(user, folderId[1])

\* the message it traps with: "Folder not found: " # id.toText()
folderNotFound(folderId) == <<"Folder not found: ">> \o natToText(folderId[1])

\* TRUE when assertTagsExist returns, FALSE when it traps
assertTagsExist(user, tagIds) ==
  \A i \in 1..Len(tagIds) : containsKey(getUserTags(user), tagIds[i])

\* the message it traps with, which names the first tag id of the list that
\* is not in the map: "Tag not found: " # tagId.toText()
tagNotFound(user, tagIds) ==
  <<"Tag not found: ">> \o
    natToText(tagIds[Min({i \in 1..Len(tagIds) :
                           ~containsKey(getUserTags(user), tagIds[i])})])

maxFolderDepth == 100

\* The recursion of checkAncestor, one call at a time.  A walk is the pair
\* of arguments that changes from call to call, with the verdict once the
\* recursion has ended: "true" or "false" for the Bool it returns, "trap" when
\* it reaches the depth cap.
ended(walk, verdict) == [walk EXCEPT !.verdict = verdict]

\* a fault: the walk never compares the folder it stands on with ancestorId
checkAncestorCallWithoutMatch(folders, ancestorId, walk) ==
  IF walk.verdict # "walking" THEN walk
  ELSE IF walk.depth >= maxFolderDepth THEN ended(walk, "trap")
  ELSE IF walk.currentId = null THEN ended(walk, "false")
  ELSE IF ~containsKey(folders, walk.currentId[1]) THEN ended(walk, "false")
  ELSE [currentId |-> folders[walk.currentId[1]].parentId,
        depth |-> walk.depth + 1, verdict |-> "walking"]

\* a fault: the depth test is off by one and traps one level early
checkAncestorCallOneEarly(folders, ancestorId, walk) ==
  IF walk.verdict # "walking" THEN walk
  ELSE IF walk.depth + 1 >= maxFolderDepth THEN ended(walk, "trap")
  ELSE IF walk.currentId = null THEN ended(walk, "false")
  ELSE IF walk.currentId[1] = ancestorId THEN ended(walk, "true")
  ELSE IF ~containsKey(folders, walk.currentId[1]) THEN ended(walk, "false")
  ELSE [currentId |-> folders[walk.currentId[1]].parentId,
        depth |-> walk.depth + 1, verdict |-> "walking"]

\* a fault: the walk has no depth cap
checkAncestorCallUncapped(folders, ancestorId, walk) ==
  IF walk.verdict # "walking" THEN walk
  ELSE IF walk.currentId = null THEN ended(walk, "false")
  ELSE IF walk.currentId[1] = ancestorId THEN ended(walk, "true")
  ELSE IF ~containsKey(folders, walk.currentId[1]) THEN ended(walk, "false")
  ELSE [currentId |-> folders[walk.currentId[1]].parentId,
        depth |-> walk.depth + 1, verdict |-> "walking"]

\* the body of checkAncestor for the call walk stands at
checkAncestorCall(folders, ancestorId, walk) ==
  IF walk.verdict # "walking" THEN walk
  ELSE IF walk.depth >= maxFolderDepth THEN ended(walk, "trap")
  ELSE IF walk.currentId = null THEN ended(walk, "false")
  ELSE IF walk.currentId[1] = ancestorId THEN ended(walk, "true")
  ELSE IF ~containsKey(folders, walk.currentId[1]) THEN ended(walk, "false")
  ELSE [currentId |-> folders[walk.currentId[1]].parentId,
        depth |-> walk.depth + 1, verdict |-> "walking"]

\* n calls in a row (halving n keeps the evaluation shallow)
RECURSIVE checkAncestorCalls(_, _, _, _)
checkAncestorCalls(folders, ancestorId, walk, n) ==
  IF n = 0 \/ walk.verdict # "walking" THEN walk
  ELSE IF n = 1 THEN checkAncestorCall(folders, ancestorId, walk)
  ELSE checkAncestorCalls(folders, ancestorId,
         checkAncestorCalls(folders, ancestorId, walk, n \div 2), n - (n \div 2))

\* the recursion ends within maxFolderDepth + 1 calls, the last one trapping
checkAncestor(folders, ancestorId, currentId, depth) ==
  checkAncestorCalls(folders, ancestorId,
    [currentId |-> currentId, depth |-> depth, verdict |-> "walking"],
    maxFolderDepth + 1).verdict

\* a fault: the ancestor test always answers no
isAncestorNever(user, ancestorId, descendantId) == "false"

isAncestor(user, ancestorId, descendantId) ==
  checkAncestor(getUserFolders(user), ancestorId, Some(descendantId), 0)

\* ------------------------------------------------------------- responses

\* What the caller of the last update call got back: a reply, or a reject
\* carrying the trap message.  A message is a sequence: the literal text,
\* followed by the characters of the id where the code appends one.

\* the call trapped: its writes are rolled back and the caller gets a reject
Trap(method, message) ==
  /\ response' = [method |-> method, status |-> "reject", error |-> message]
  /\ UNCHANGED <<data, now>>

Reply(method) ==
  response' = [method |-> method, status |-> "reply", error |-> <<>>]

\* ------------------------------------------------------ folder operations

createFolder(caller, name, parentId) ==
  IF isAnonymous(caller) THEN Trap("createFolder", <<"Not authenticated">>)
  ELSE IF ~assertFolderExists(caller, parentId) THEN Trap("createFolder", folderNotFound(parentId))
  ELSE IF name = <<>> THEN Trap("createFolder", <<"Folder name cannot be empty">>)
     ELSE LET uniqueName == getUniqueFolderName(caller, parentId, name, null)
              folders == getUserFolders(caller)
              folderId == genFolderId(caller)
              folder == [id |-> folderId, name |-> uniqueName, parentId |-> parentId,
                         createdDate |-> now, modifiedDate |-> now]
          IN /\ userNextFolderId' = bumped(userNextFolderId, caller, folderId)
             /\ userFolders' = mapAdd(userFolders, caller, mapAdd(folders, folderId, folder))
             /\ Reply("createFolder")
             /\ UNCHANGED <<userProfiles, userFiles, userTags, userNextFileId, userNextTagId, now>>

renameFolder(caller, id, newName) ==
  IF isAnonymous(caller) THEN Trap("renameFolder", <<"Not authenticated">>)
  ELSE IF newName = <<>> THEN Trap("renameFolder", <<"Folder name cannot be empty">>)
     ELSE LET folders == getUserFolders(caller)
          IN IF ~containsKey(folders, id) THEN Trap("renameFolder", <<"Folder not found">>)
             ELSE LET folder == folders[id]
                      uniqueName == getUniqueFolderName(caller, folder.parentId, newName, Some(id))
                      updated == [id |-> folder.id, name |-> uniqueName,
                                  parentId |-> folder.parentId,
                                  createdDate |-> folder.createdDate,
                                  modifiedDate |-> now]
                  IN /\ userFolders' = mapAdd(userFolders, caller,
                                              mapAdd(mapRemove(folders, id), id, updated))
                     /\ Reply("renameFolder")
                     /\ UNCHANGED <<userProfiles, userFiles, userTags, userNextFileId,
                                    userNextFolderId, userNextTagId, now>>

\* a fault: a folder that is not stored is moved without an error
moveFolderCommitLenient(caller, id, newParentId) ==
  IF ~containsKey(getUserFolders(caller), id)
  THEN Reply("moveFolder") /\ UNCHANGED <<data, now>>
  ELSE LET folders == getUserFolders(caller)
           folder == folders[id]
           uniqueName == getUniqueFolderName(caller, newParentId, folder.name, Some(id))
           updated == [id |-> folder.id, name |-> uniqueName,
                       parentId |-> newParentId,
                       createdDate |-> folder.createdDate,
                       modifiedDate |-> now]
       IN /\ userFolders' = mapAdd(userFolders, caller,
                                   mapAdd(mapRemove(folders, id), id, updated))
          /\ Reply("moveFolder")
          /\ UNCHANGED <<userProfiles, userFiles, userTags, userNextFileId,
                         userNextFolderId, userNextTagId, now>>

\* a fault: the moved folder keeps the date of its last change
moveFolderCommitKeepingDate(caller, id, newParentId) ==
  IF ~containsKey(getUserFolders(caller), id) THEN Trap("moveFolder", <<"Folder not found">>)
  ELSE LET folders == getUserFolders(caller)
           folder == folders[id]
           uniqueName == getUniqueFolderName(caller, newParentId, folder.name, Some(id))
           updated == [id |-> folder.id, name |-> uniqueName,
                       parentId |-> newParentId,
                       createdDate |-> folder.createdDate,
                       modifiedDate |-> folder.modifiedDate]
       IN /\ userFolders' = mapAdd(userFolders, caller,
                                   mapAdd(mapRemove(folders, id), id, updated))
          /\ Reply("moveFolder")
          /\ UNCHANGED <<userProfiles, userFiles, userTags, userNextFileId,
                         userNextFolderId, userNextTagId, now>>

\* moveFolder from its second switch, reached when no check trapped
moveFolderCommit(caller, id, newParentId) ==
  IF ~containsKey(getUserFolders(caller), id) THEN Trap("moveFolder", <<"Folder not found">>)
  ELSE LET folders == getUserFolders(caller)
           folder == folders[id]
           uniqueName == getUniqueFolderName(caller, newParentId, folder.name, Some(id))
           updated == [id |-> folder.id, name |-> uniqueName,
                       parentId |-> newParentId,
                       createdDate |-> folder.createdDate,
                       modifiedDate |-> now]
       IN /\ userFolders' = mapAdd(userFolders, caller,
                                   mapAdd(mapRemove(folders, id), id, updated))
          /\ Reply("moveFolder")
          /\ UNCHANGED <<userProfiles, userFiles, userTags, userNextFileId,
                         userNextFolderId, userNextTagId, now>>

\* moveFolder once isAncestor(caller, id, parentId) has answered walk
moveFolderAfterWalk(caller, id, newParentId, walk) ==
  IF walk = "trap"
  THEN Trap("moveFolder", <<"Folder hierarchy too deep or circular reference detected">>)
  ELSE IF walk = "true" THEN Trap("moveFolder", <<"Cannot move folder into its own descendant">>)
  ELSE moveFolderCommit(caller, id, newParentId)

moveFolder(caller, id, newParentId) ==
  IF isAnonymous(caller) THEN Trap("moveFolder", <<"Not authenticated">>)
  ELSE IF ~assertFolderExists(caller, newParentId) THEN Trap("moveFolder", folderNotFound(newParentId))
  ELSE IF newParentId = null THEN moveFolderCommit(caller, id, newParentId)
  ELSE IF id = newParentId[1] THEN Trap("moveFolder", <<"Cannot move folder into itself">>)
  ELSE moveFolderAfterWalk(caller, id, newParentId,
                           isAncestor(caller, id, newParentId[1]))

\* One pass of the for loop over folders.values(), which visits the folders
\* in key order: a folder is added when its parent is in the set at its turn,
\* that is, when the parent was in the set before the pass, or has a smaller
\* key and was itself added earlier in this pass.  passesOn is TRUE of a folder
\* whose turn depends on an earlier turn of the same pass, that of its parent.
passesOn(folders, folderIdsToDelete, k) ==
  /\ folders[k].parentId # null
  /\ folders[k].parentId[1] \notin folderIdsToDelete
  /\ folders[k].parentId[1] \in DOMAIN folders
  /\ folders[k].parentId[1] < k

\* the folder whose turn decides that of k, n turns back at most
RECURSIVE decidingTurn(_, _, _, _)
decidingTurn(folders, folderIdsToDelete, k, n) ==
  IF n = 0 \/ ~passesOn(folders, folderIdsToDelete, k) THEN k
  ELSE IF n = 1
    THEN IF passesOn(folders, folderIdsToDelete, k)
         THEN folders[k].parentId[1] ELSE k
  ELSE decidingTurn(folders, folderIdsToDelete,
         decidingTurn(folders, folderIdsToDelete, k, n \div 2), n - (n \div 2))

\* the if of the loop body at the turn that decides
parentInSet(folders, folderIdsToDelete, k) ==
  /\ folders[k].parentId # null
  /\ folders[k].parentId[1] \in folderIdsToDelete

addedAtTurn(folders, folderIdsToDelete, k) ==
  /\ k \notin folderIdsToDelete
  /\ parentInSet(folders, folderIdsToDelete,
       decidingTurn(folders, folderIdsToDelete, k, Cardinality(DOMAIN folders)))

descendantPass(folders, folderIdsToDelete) ==
  folderIdsToDelete \cup
    {k \in DOMAIN folders : addedAtTurn(folders, folderIdsToDelete, k)}

\* a fault: no descendant is collected, only the folder itself is deleted
descendantLoopNone(folders, folderIdsToDelete) == folderIdsToDelete

\* a fault: the loop stops after its first pass
descendantLoopOnePass(folders, folderIdsToDelete) ==
  descendantPass(folders, folderIdsToDelete)

\* the while (foundNew) loop: passes until one adds nothing
RECURSIVE descendantLoop(_, _)
descendantLoop(folders, folderIdsToDelete) ==
  IF descendantPass(folders, folderIdsToDelete) = folderIdsToDelete
  THEN folderIdsToDelete
  ELSE descendantLoop(folders, descendantPass(folders, folderIdsToDelete))

\* the keys of a Map in the order in which keys() and values() visit them
keysInOrder(keys) ==
  [n \in 1..Cardinality(keys) |->
     CHOOSE k \in keys : Cardinality({j \in keys : j <= k}) = n]

\* fileIdsToDelete: the ids of the files in the folders to delete
fileIdsIn(files, folderIdsToDelete) ==
  keysInOrder({f \in DOMAIN files :
                 /\ files[f].folderId # null
                 /\ files[f].folderId[1] \in folderIdsToDelete})

\* the number of files.remove and folders.remove calls of one deleteFolder
removalsOf(files, folderIdsToDelete) ==
  Len(fileIdsIn(files, folderIdsToDelete)) + Cardinality(folderIdsToDelete)

\* a fault: the folders are removed before the files
afterRemovalsFoldersFirst(files, folders, folderIdsToDelete, n) ==
  LET folderKeys == keysInOrder(folderIdsToDelete)
      fileIdsToDelete == fileIdsIn(files, folderIdsToDelete)
      goneFolders == {folderKeys[i] : i \in 1..Min({n, Len(folderKeys)})}
      goneFiles == {fileIdsToDelete[i] : i \in 1..(n - Len(folderKeys))}
  IN [files |-> [f \in DOMAIN files \ goneFiles |-> files[f]],
      folders |-> [k \in DOMAIN folders \ goneFolders |-> folders[k]]]

\* the two maps after the first n removals of deleteFolder: the loop over
\* fileIdsToDelete runs first, the loop over folderIdsToDelete.keys() second
afterRemovals(files, folders, folderIdsToDelete, n) ==
  LET fileIdsToDelete == fileIdsIn(files, folderIdsToDelete)
      folderKeys == keysInOrder(folderIdsToDelete)
      goneFiles == {fileIdsToDelete[i] : i \in 1..Min({n, Len(fileIdsToDelete)})}
      goneFolders == {folderKeys[i] : i \in 1..(n - Len(fileIdsToDelete))}
  IN [files |-> [f \in DOMAIN files \ goneFiles |-> files[f]],
      folders |-> [k \in DOMAIN folders \ goneFolders |-> folders[k]]]

\* a fault: the ids of the deleted folders are handed out again
deleteFolderCascadeReusingIds(caller, folderIdsToDelete) ==
  LET folders == getUserFolders(caller)
      files == getUserFiles(caller)
      fileIdsToDelete ==
        {f \in DOMAIN files :
           /\ files[f].folderId # null
           /\ files[f].folderId[1] \in folderIdsToDelete}
  IN /\ userFiles' = mapAdd(userFiles, caller,
           [f \in DOMAIN files \ fileIdsToDelete |-> files[f]])
     /\ userFolders' = mapAdd(userFolders, caller,
           [k \in DOMAIN folders \ folderIdsToDelete |-> folders[k]])
     /\ userNextFolderId' = mapAdd(userNextFolderId, caller,
           Max((DOMAIN folders \ folderIdsToDelete) \cup {0}) + 1)
     /\ Reply("deleteFolder")
     /\ UNCHANGED <<userProfiles, userTags, userNextFileId, userNextTagId, now>>

\* deleteFolder once the set of folders to delete is known
deleteFolderCascade(caller, folderIdsToDelete) ==
  LET folders == getUserFolders(caller)
      files == getUserFiles(caller)
      fileIdsToDelete ==
        {f \in DOMAIN files :
           /\ files[f].folderId # null
           /\ files[f].folderId[1] \in folderIdsToDelete}
  IN /\ userFiles' = mapAdd(userFiles, caller,
           [f \in DOMAIN files \ fileIdsToDelete |-> files[f]])
     /\ userFolders' = mapAdd(userFolders, caller,
           [k \in DOMAIN folders \ folderIdsToDelete |-> folders[k]])
     /\ Reply("deleteFolder")
     /\ UNCHANGED <<userProfiles, userTags, userNextFileId, userNextFolderId,
                    userNextTagId, now>>

deleteFolder(caller, id) ==
  IF isAnonymous(caller) THEN Trap("deleteFolder", <<"Not authenticated">>)
  ELSE IF ~containsKey(getUserFolders(caller), id) THEN Trap("deleteFolder", <<"Folder not found">>)
  ELSE deleteFolderCascade(caller, descendantLoop(getUserFolders(caller), {id}))

\* -------------------------------------------------------- file operations

\* a fault: the id is issued before the name is validated, and the failure
\* on an empty name keeps the counter
uploadFileIssuingIdFirst(caller, name, description, tagIds, folderId, size, fileType, blob) ==
  IF isAnonymous(caller) THEN Trap("uploadFile", <<"Not authenticated">>)
  ELSE IF ~assertFolderExists(caller, folderId) THEN Trap("uploadFile", folderNotFound(folderId))
  ELSE IF ~assertTagsExist(caller, tagIds) THEN Trap("uploadFile", tagNotFound(caller, tagIds))
  ELSE IF name = <<>>
    THEN /\ userNextFileId' = bumped(userNextFileId, caller, genFileId(caller))
         /\ response' = [method |-> "uploadFile", status |-> "reject",
                         error |-> <<"File name cannot be empty">>]
         /\ UNCHANGED <<userProfiles, userFiles, userFolders, userTags, userNextFolderId,
                        userNextTagId, now>>
    ELSE /\ userNextFileId' = bumped(userNextFileId, caller, genFileId(caller))
         /\ userFiles' = mapAdd(userFiles, caller,
              mapAdd(getUserFiles(caller), genFileId(caller),
                [id |-> genFileId(caller),
                 name |-> getUniqueFileName(caller, folderId, name, null),
                 description |-> description, tagIds |-> tagIds,
                 folderId |-> folderId, size |-> size,
                 uploadDate |-> now, modifiedDate |-> now,
                 fileType |-> fileType, blob |-> blob]))
         /\ userTags' = touched(userTags, caller)
         /\ Reply("uploadFile")
         /\ UNCHANGED <<userProfiles, userFolders, userNextFolderId, userNextTagId, now>>

uploadFile(caller, name, description, tagIds, folderId, size, fileType, blob) ==
  IF isAnonymous(caller) THEN Trap("uploadFile", <<"Not authenticated">>)
  ELSE IF ~assertFolderExists(caller, folderId) THEN Trap("uploadFile", folderNotFound(folderId))
  ELSE IF ~assertTagsExist(caller, tagIds) THEN Trap("uploadFile", tagNotFound(caller, tagIds))
  ELSE IF name = <<>> THEN Trap("uploadFile", <<"File name cannot be empty">>)
     ELSE LET uniqueName == getUniqueFileName(caller, folderId, name, null)
              files == getUserFiles(caller)
              fileId == genFileId(caller)
              metadata == [id |-> fileId, name |-> uniqueName,
                           description |-> description, tagIds |-> tagIds,
                           folderId |-> folderId, size |-> size,
                           uploadDate |-> now, modifiedDate |-> now,
                           fileType |-> fileType, blob |-> blob]
          IN /\ userNextFileId' = bumped(userNextFileId, caller, fileId)
             /\ userFiles' = mapAdd(userFiles, caller, mapAdd(files, fileId, metadata))
             /\ userTags' = touched(userTags, caller)
             /\ Reply("uploadFile")
             /\ UNCHANGED <<userProfiles, userFolders, userNextFolderId, userNextTagId, now>>

\* a fault: the tags given are added to the tags the file has
updateFileMergingTags(caller, id, name, description, tagIds) ==
  IF isAnonymous(caller) THEN Trap("updateFile", <<"Not authenticated">>)
  ELSE IF ~assertTagsExist(caller, tagIds) THEN Trap("updateFile", tagNotFound(caller, tagIds))
  ELSE IF name = <<>> THEN Trap("updateFile", <<"File name cannot be empty">>)
  ELSE IF ~containsKey(getUserFiles(caller), id) THEN Trap("updateFile", <<"File not found">>)
  ELSE LET files == getUserFiles(caller)
           uniqueName == getUniqueFileName(caller, files[id].folderId, name, Some(id))
       IN /\ userFiles' = mapAdd(userFiles, caller,
                [files EXCEPT ![id] =
                   [files[id] EXCEPT !.name = uniqueName,
                                     !.description = description,
                                     !.tagIds = files[id].tagIds \o tagIds,
                                     !.modifiedDate = now]])
          /\ userTags' = touched(userTags, caller)
          /\ Reply("updateFile")
          /\ UNCHANGED <<userProfiles, userFolders, userNextFileId, userNextFolderId,
                         userNextTagId, now>>

updateFile(caller, id, name, description, tagIds) ==
  IF isAnonymous(caller) THEN Trap("updateFile", <<"Not authenticated">>)
  ELSE IF ~assertTagsExist(caller, tagIds) THEN Trap("updateFile", tagNotFound(caller, tagIds))
  ELSE IF name = <<>> THEN Trap("updateFile", <<"File name cannot be empty">>)
     ELSE LET files == getUserFiles(caller)
          IN IF ~containsKey(files, id) THEN Trap("updateFile", <<"File not found">>)
             ELSE LET metadata == files[id]
                      uniqueName == getUniqueFileName(caller, metadata.folderId, name, Some(id))
                      updated == [id |-> metadata.id, name |-> uniqueName,
                                  description |-> description, tagIds |-> tagIds,
                                  folderId |-> metadata.folderId,
                                  size |-> metadata.size,
                                  uploadDate |-> metadata.uploadDate,
                                  modifiedDate |-> now,
                                  fileType |-> metadata.fileType,
                                  blob |-> metadata.blob]
                  IN /\ userFiles' = mapAdd(userFiles, caller,
                                            mapAdd(mapRemove(files, id), id, updated))
                     /\ userTags' = touched(userTags, caller)
                     /\ Reply("updateFile")
                     /\ UNCHANGED <<userProfiles, userFolders, userNextFileId, userNextFolderId,
                                    userNextTagId, now>>

\* a fault: the moved file keeps its name, and the file that has the name in
\* the new folder is given the numbered one
moveFileRenumbering(caller, id, newFolderId) ==
  IF isAnonymous(caller) THEN Trap("moveFile", <<"Not authenticated">>)
  ELSE IF ~assertFolderExists(caller, newFolderId) THEN Trap("moveFile", folderNotFound(newFolderId))
  ELSE IF ~containsKey(getUserFiles(caller), id) THEN Trap("moveFile", <<"File not found">>)
  ELSE LET files == getUserFiles(caller)
           uniqueName == getUniqueFileName(caller, newFolderId, files[id].name, Some(id))
           clash == {k \in fileSiblings(files, newFolderId, Some(id)) :
                       namesEqual(files[k].name, files[id].name)}
       IN /\ userFiles' = mapAdd(userFiles, caller,
                [k \in DOMAIN files |->
                   IF k = id THEN [files[k] EXCEPT !.folderId = newFolderId,
                                                   !.modifiedDate = now]
                   ELSE IF k \in clash THEN [files[k] EXCEPT !.name = uniqueName]
                   ELSE files[k]])
          /\ Reply("moveFile")
          /\ UNCHANGED <<userProfiles, userFolders, userTags, userNextFileId,
                         userNextFolderId, userNextTagId, now>>

moveFile(caller, id, newFolderId) ==
  IF isAnonymous(caller) THEN Trap("moveFile", <<"Not authenticated">>)
  ELSE IF ~assertFolderExists(caller, newFolderId) THEN Trap("moveFile", folderNotFound(newFolderId))
     ELSE LET files == getUserFiles(caller)
          IN IF ~containsKey(files, id) THEN Trap("moveFile", <<"File not found">>)
             ELSE LET metadata == files[id]
                      uniqueName == getUniqueFileName(caller, newFolderId, metadata.name, Some(id))
                      updated == [id |-> metadata.id, name |-> uniqueName,
                                  description |-> metadata.description,
                                  tagIds |-> metadata.tagIds,
                                  folderId |-> newFolderId,
                                  size |-> metadata.size,
                                  uploadDate |-> metadata.uploadDate,
                                  modifiedDate |-> now,
                                  fileType |-> metadata.fileType,
                                  blob |-> metadata.blob]
                  IN /\ userFiles' = mapAdd(userFiles, caller,
                                            mapAdd(mapRemove(files, id), id, updated))
                     /\ Reply("moveFile")
                     /\ UNCHANGED <<userProfiles, userFolders, userTags, userNextFileId,
                                    userNextFolderId, userNextTagId, now>>

\* a fault: a file that is not stored is deleted without complaint
deleteFileUnchecked(caller, id) ==
  IF isAnonymous(caller) THEN Trap("deleteFile", <<"Not authenticated">>)
  ELSE /\ userFiles' = mapAdd(userFiles, caller, mapRemove(getUserFiles(caller), id))
       /\ Reply("deleteFile")
       /\ UNCHANGED <<userProfiles, userFolders, userTags, userNextFileId,
                      userNextFolderId, userNextTagId, now>>

deleteFile(caller, id) ==
  IF isAnonymous(caller) THEN Trap("deleteFile", <<"Not authenticated">>)
     ELSE LET files == getUserFiles(caller)
          IN IF ~containsKey(files, id) THEN Trap("deleteFile", <<"File not found">>)
             ELSE /\ userFiles' = mapAdd(userFiles, caller, mapRemove(files, id))
                  /\ Reply("deleteFile")
                  /\ UNCHANGED <<userProfiles, userFolders, userTags, userNextFileId,
                                 userNextFolderId, userNextTagId, now>>

\* --------------------------------------------------------- tag operations

createTag(caller, name, color) ==
  IF isAnonymous(caller) THEN Trap("createTag", <<"Not authenticated">>)
  ELSE IF name = <<>> THEN Trap("createTag", <<"Tag name cannot be empty">>)
     ELSE LET tags == getUserTags(caller)
              tagId == genTagId(caller)
              tag == [id |-> tagId, name |-> name, color |-> color]
          IN /\ userNextTagId' = bumped(userNextTagId, caller, tagId)
             /\ userTags' = mapAdd(userTags, caller, mapAdd(tags, tagId, tag))
             /\ Reply("createTag")
             /\ UNCHANGED <<userProfiles, userFiles, userFolders, userNextFileId,
                            userNextFolderId, now>>

\* a fault: the tag is looked up before the name is tested
updateTagLookingUpFirst(caller, id, name, color) ==
  IF isAnonymous(caller) THEN Trap("updateTag", <<"Not authenticated">>)
  ELSE IF ~containsKey(getUserTags(caller), id) THEN Trap("updateTag", <<"Tag not found">>)
  ELSE IF name = <<>> THEN Trap("updateTag", <<"Tag name cannot be empty">>)
  ELSE /\ userTags' = mapAdd(userTags, caller,
                             mapAdd(mapRemove(getUserTags(caller), id), id,
                                    [id |-> id, name |-> name, color |-> color]))
       /\ Reply("updateTag")
       /\ UNCHANGED <<userProfiles, userFiles, userFolders, userNextFileId,
                      userNextFolderId, userNextTagId, now>>

updateTag(caller, id, name, color) ==
  IF isAnonymous(caller) THEN Trap("updateTag", <<"Not authenticated">>)
  ELSE IF name = <<>> THEN Trap("updateTag", <<"Tag name cannot be empty">>)
     ELSE LET tags == getUserTags(caller)
          IN IF ~containsKey(tags, id) THEN Trap("updateTag", <<"Tag not found">>)
             ELSE LET updated == [id |-> id, name |-> name, color |-> color]
                  IN /\ userTags' = mapAdd(userTags, caller,
                                           mapAdd(mapRemove(tags, id), id, updated))
                     /\ Reply("updateTag")
                     /\ UNCHANGED <<userProfiles, userFiles, userFolders, userNextFileId,
                                    userNextFolderId, userNextTagId, now>>

\* deleteTag replaces, inside its loop over files.values(), the record of the
\* file the loop stands on (remove, then add under the same key).  The key set
\* of the map is the same before and after each turn, and the loop is taken to
\* visit every file of the map once, as the iteration of an unchanged key set.

\* a fault: the files keep the deleted tag
withoutTagKeeping(file, id) == file

\* a fault: a file that carries the deleted tag loses all its tags
withoutAnyTag(file, id) ==
  IF \E i \in 1..Len(file.tagIds) : file.tagIds[i] = id
  THEN [id |-> file.id, name |-> file.name, description |-> file.description,
        tagIds |-> <<>>,
        folderId |-> file.folderId, size |-> file.size,
        uploadDate |-> file.uploadDate, modifiedDate |-> file.modifiedDate,
        fileType |-> file.fileType, blob |-> file.blob]
  ELSE file

\* a fault: the file that loses the tag is marked as modified now
withoutTagTouching(file, id) ==
  IF \E i \in 1..Len(file.tagIds) : file.tagIds[i] = id
  THEN [id |-> file.id, name |-> file.name, description |-> file.description,
        tagIds |-> SelectSeq(file.tagIds, LAMBDA tid : tid # id),
        folderId |-> file.folderId, size |-> file.size,
        uploadDate |-> file.uploadDate, modifiedDate |-> now,
        fileType |-> file.fileType, blob |-> file.blob]
  ELSE file

\* the body of deleteTag's loop for one file
withoutTag(file, id) ==
  IF \E i \in 1..Len(file.tagIds) : file.tagIds[i] = id
  THEN [id |-> file.id, name |-> file.name, description |-> file.description,
        tagIds |-> SelectSeq(file.tagIds, LAMBDA tid : tid # id),
        folderId |-> file.folderId, size |-> file.size,
        uploadDate |-> file.uploadDate, modifiedDate |-> file.modifiedDate,
        fileType |-> file.fileType, blob |-> file.blob]
  ELSE file

deleteTag(caller, id) ==
  IF isAnonymous(caller) THEN Trap("deleteTag", <<"Not authenticated">>)
     ELSE LET tags == getUserTags(caller)
              files == getUserFiles(caller)
          IN IF ~containsKey(tags, id) THEN Trap("deleteTag", <<"Tag not found">>)
             ELSE /\ userFiles' = mapAdd(userFiles, caller,
                                    [f \in DOMAIN files |-> withoutTag(files[f], id)])
                  /\ userTags' = mapAdd(userTags, caller, mapRemove(tags, id))
                  /\ Reply("deleteTag")
                  /\ UNCHANGED <<userProfiles, userFolders, userNextFileId, userNextFolderId,
                                 userNextTagId, now>>

\* ------------------------------------------------------------- queries
\* A query reads the state and changes nothing; its reply carries the value
\* it returns.

ReplyWith(method, value) ==
  /\ response' = [method |-> method, status |-> "reply", error |-> <<>>,
                  value |-> value]
  /\ UNCHANGED <<data, now>>

\* m.values().toArray(): the values of a Map in the order of their keys
valuesOf(m) ==
  [n \in 1..Cardinality(DOMAIN m) |->
     m[CHOOSE k \in DOMAIN m : Cardinality({j \in DOMAIN m : j <= k}) = n]]

\* The recursion of buildFolderPath, one call at a time.  A build is the pair
\* of arguments that changes from call to call and the entries added to
\* pathMap so far, which are its values in the order of their indices;
\* status is "building", "done" once a call returns without recursing, and
\* "trap" when the index reaches the depth cap.
buildFolderPathCall(folders, build) ==
  IF build.status # "building" THEN build
  ELSE IF build.index >= maxFolderDepth THEN [build EXCEPT !.status = "trap"]
  ELSE IF build.currentId = null THEN [build EXCEPT !.status = "done"]
  ELSE IF ~containsKey(folders, build.currentId[1])
    THEN [build EXCEPT !.status = "done"]
  ELSE [currentId |-> folders[build.currentId[1]].parentId,
        index |-> build.index + 1,
        pathMap |-> Append(build.pathMap, folders[build.currentId[1]]),
        status |-> "building"]

RECURSIVE buildFolderPathCalls(_, _, _)
buildFolderPathCalls(folders, build, n) ==
  IF n = 0 \/ build.status # "building" THEN build
  ELSE IF n = 1 THEN buildFolderPathCall(folders, build)
  ELSE buildFolderPathCalls(folders,
         buildFolderPathCalls(folders, build, n \div 2), n - (n \div 2))

buildFolderPath(folders, currentId, index) ==
  buildFolderPathCalls(folders,
    [currentId |-> currentId, index |-> index, pathMap |-> <<>>,
     status |-> "building"],
    maxFolderDepth + 1)

\* a fault: a path without a folder is turned into an error
getFolderPathAfterBuildStrict(build) ==
  IF build.status = "trap"
  THEN Trap("getFolderPath",
            <<"Folder hierarchy too deep or circular reference detected">>)
  ELSE IF build.pathMap = <<>> THEN Trap("getFolderPath", <<"Folder not found">>)
  ELSE ReplyWith("getFolderPath", build.pathMap)

\* getFolderPath once buildFolderPath has ended
getFolderPathAfterBuild(build) ==
  IF build.status = "trap"
  THEN Trap("getFolderPath",
            <<"Folder hierarchy too deep or circular reference detected">>)
  ELSE ReplyWith("getFolderPath", build.pathMap)

getFolderPath(caller, folderId) ==
  IF isAnonymous(caller) THEN Trap("getFolderPath", <<"Not authenticated">>)
  ELSE getFolderPathAfterBuild(
         buildFolderPath(getUserFolders(caller), Some(folderId), 0))

getAllFiles(caller) ==
  IF isAnonymous(caller) THEN Trap("getAllFiles", <<"Not authenticated">>)
  ELSE ReplyWith("getAllFiles", valuesOf(getUserFiles(caller)))

\* the filter function of searchFilesWithTags
matchesSearch(tags, f, searchTerm) ==
  \/ searchTerm = <<>>
  \/ textContainsIgnoreCase(f.name, searchTerm)
  \/ textContainsIgnoreCase(f.description, searchTerm)
  \/ \E i \in 1..Len(f.tagIds) :
       /\ containsKey(tags, f.tagIds[i])
       /\ textContainsIgnoreCase(tags[f.tagIds[i]].name, searchTerm)

\* matchesTags asking for every tag of the filter instead of one
matchesTagsAll(f, filterTagIds) ==
  \/ Len(filterTagIds) = 0
  \/ \A j \in 1..Len(filterTagIds) :
       \E i \in 1..Len(f.tagIds) : f.tagIds[i] = filterTagIds[j]

matchesTags(f, filterTagIds) ==
  \/ Len(filterTagIds) = 0
  \/ \E j \in 1..Len(filterTagIds) :
       \E i \in 1..Len(f.tagIds) : f.tagIds[i] = filterTagIds[j]

\* searchFilesWithTags taking the empty filter for a filter no file passes
searchFilesWithTagsNeedingTag(caller, searchTerm, filterTagIds) ==
  IF isAnonymous(caller)
  THEN Trap("searchFilesWithTags", <<"Not authenticated">>)
  ELSE ReplyWith("searchFilesWithTags",
         SelectSeq(valuesOf(getUserFiles(caller)),
                   LAMBDA f : /\ matchesSearch(getUserTags(caller), f, searchTerm)
                              /\ \E j \in 1..Len(filterTagIds) :
                                   \E i \in 1..Len(f.tagIds) :
                                     f.tagIds[i] = filterTagIds[j]))

searchFilesWithTags(caller, searchTerm, filterTagIds) ==
  IF isAnonymous(caller)
  THEN Trap("searchFilesWithTags", <<"Not authenticated">>)
  ELSE IF searchTerm = <<>> /\ Len(filterTagIds) = 0
  THEN ReplyWith("searchFilesWithTags", valuesOf(getUserFiles(caller)))
  ELSE ReplyWith("searchFilesWithTags",
         SelectSeq(valuesOf(getUserFiles(caller)),
                   LAMBDA f : /\ matchesSearch(getUserTags(caller), f, searchTerm)
                              /\ matchesTags(f, filterTagIds)))

getAllFolders(caller) ==
  IF isAnonymous(caller) THEN Trap("getAllFolders", <<"Not authenticated">>)
  ELSE ReplyWith("getAllFolders", valuesOf(getUserFolders(caller)))

getFolderContents(caller, folderId) ==
  IF isAnonymous(caller) THEN Trap("getFolderContents", <<"Not authenticated">>)
  ELSE ReplyWith("getFolderContents",
         [folders |-> SelectSeq(valuesOf(getUserFolders(caller)),
                                LAMBDA f : f.parentId = folderId),
          files |-> SelectSeq(valuesOf(getUserFiles(caller)),
                              LAMBDA f : f.folderId = folderId)])

getAllTags(caller) ==
  IF isAnonymous(caller) THEN Trap("getAllTags", <<"Not authenticated">>)
  ELSE ReplyWith("getAllTags", valuesOf(getUserTags(caller)))

getTag(caller, id) ==
  IF isAnonymous(caller) THEN Trap("getTag", <<"Not authenticated">>)
  ELSE IF ~containsKey(getUserTags(caller), id)
  THEN Trap("getTag", <<"Tag not found">>)
  ELSE ReplyWith("getTag", getUserTags(caller)[id])

\* the body of the for loop of getAllFilesInFolder for one folder
subfolderStep(folder, folderIdSet, includeRoot) ==
  IF folder.id \notin folderIdSet
     /\ IF folder.parentId = null THEN includeRoot
        ELSE folder.parentId[1] \in folderIdSet
  THEN folderIdSet \cup {folder.id} ELSE folderIdSet

\* one pass of the for loop over folders.values(), in key order
RECURSIVE subfolderPass(_, _, _, _)
subfolderPass(folders, ids, folderIdSet, includeRoot) ==
  IF ids = {} THEN folderIdSet
  ELSE subfolderPass(folders, ids \ {Min(ids)},
         subfolderStep(folders[Min(ids)], folderIdSet, includeRoot), includeRoot)

\* a fault: the folders below the folder asked for are not collected
subfolderLoopNone(folders, folderIdSet, includeRoot) == folderIdSet

\* the while (foundNew) loop of getAllFilesInFolder
RECURSIVE subfolderLoop(_, _, _)
subfolderLoop(folders, folderIdSet, includeRoot) ==
  IF subfolderPass(folders, DOMAIN folders, folderIdSet, includeRoot) = folderIdSet
  THEN folderIdSet
  ELSE subfolderLoop(folders,
         subfolderPass(folders, DOMAIN folders, folderIdSet, includeRoot),
         includeRoot)

\* the filter of getAllFilesInFolder once the folders are collected
filesWithin(files, folderIdSet, includeRoot) ==
  SelectSeq(valuesOf(files),
            LAMBDA f : IF f.folderId = null THEN includeRoot
                       ELSE f.folderId[1] \in folderIdSet)

getAllFilesInFolder(caller, folderId) ==
  IF isAnonymous(caller) THEN Trap("getAllFilesInFolder", <<"Not authenticated">>)
  ELSE ReplyWith("getAllFilesInFolder",
         filesWithin(getUserFiles(caller),
           subfolderLoop(getUserFolders(caller),
                         IF folderId = null THEN {} ELSE {folderId[1]},
                         folderId = null),
           folderId = null))

\* ------------------------------------------------------------- profiles

getProfile(caller) ==
  IF isAnonymous(caller) THEN Trap("getProfile", <<"Not authenticated">>)
  ELSE ReplyWith("getProfile",
         IF containsKey(userProfiles, caller) THEN Some(userProfiles[caller])
         ELSE null)

setProfile(caller, name) ==
  IF isAnonymous(caller) THEN Trap("setProfile", <<"Not authenticated">>)
  ELSE IF name = <<>> THEN Trap("setProfile", <<"Profile name cannot be empty">>)
  ELSE /\ userProfiles' = mapAdd(userProfiles, caller, [name |-> name])
       /\ Reply("setProfile")
       /\ UNCHANGED <<userFiles, userFolders, userTags, userNextFileId,
                      userNextFolderId, userNextTagId, now>>

\* ------------------------------------------------------------ the system

\* the actor right after installation: no principal has called yet
Init ==
  /\ userProfiles = emptyMap
  /\ userFiles = emptyMap
  /\ userFolders = emptyMap
  /\ userTags = emptyMap
  /\ userNextFileId = emptyMap
  /\ userNextFolderId = emptyMap
  /\ userNextTagId = emptyMap
  /\ now = 0
  /\ response = [method |-> "", status |-> "reply", error |-> <<>>]

\* texts the callers send
empty == <<>>
nameA == <<"a">>
nameUpperA == <<"A">>
nameZeros == <<" ", "(", "0", "0", ")">>

MaxSuffix == 2

optional(ids) == {null} \cup {Some(i) : i \in ids}

\* the suffix number of the name a call would store
folderSuffixOf(name) == parseNameSuffix(name)[2]
fileSuffixOf(name) == parseFileNameSuffix(name)[3]

\* one call of each update method, its arguments drawn from the sets of in;
\* a create method is offered while the principal's counter is within its
\* bound, and a call that names a record while the suffix number of the name
\* it resolves is within MaxSuffix
CreateFolderCall(in) ==
  \E caller \in in.callers, name \in in.folderNames, parentId \in in.parentIds :
    /\ genFolderId(caller) <= in.maxFolders
    /\ folderSuffixOf(getUniqueFolderName(caller, parentId, name, null)) <= MaxSuffix
    /\ createFolder(caller, name, parentId)

RenameFolderCall(in) ==
  \E caller \in in.callers, id \in in.folderIds, newName \in in.folderNames :
    /\ containsKey(getUserFolders(caller), id) =>
         folderSuffixOf(getUniqueFolderName(caller,
           getUserFolders(caller)[id].parentId, newName, Some(id))) <= MaxSuffix
    /\ renameFolder(caller, id, newName)

MoveFolderCall(in) ==
  \E caller \in in.callers, id \in in.folderIds, newParentId \in in.parentIds :
    /\ containsKey(getUserFolders(caller), id) =>
         folderSuffixOf(getUniqueFolderName(caller, newParentId,
           getUserFolders(caller)[id].name, Some(id))) <= MaxSuffix
    /\ moveFolder(caller, id, newParentId)

DeleteFolderCall(in) ==
  \E caller \in in.callers, id \in in.folderIds :
    deleteFolder(caller, id)

UploadFileCall(in) ==
  \E caller \in in.callers, name \in in.fileNames, description \in in.descriptions,
     tagIds \in in.tagLists, folderId \in in.parentIds,
     size \in in.sizes, fileType \in in.fileTypes, blob \in in.blobs :
    /\ genFileId(caller) <= in.maxFiles
    /\ fileSuffixOf(getUniqueFileName(caller, folderId, name, null)) <= MaxSuffix
    /\ uploadFile(caller, name, description, tagIds, folderId, size, fileType, blob)

UpdateFileCall(in) ==
  \E caller \in in.callers, id \in in.fileIds, name \in in.fileNames,
     description \in in.descriptions, tagIds \in in.tagLists :
    /\ containsKey(getUserFiles(caller), id) =>
         fileSuffixOf(getUniqueFileName(caller,
           getUserFiles(caller)[id].folderId, name, Some(id))) <= MaxSuffix
    /\ updateFile(caller, id, name, description, tagIds)

MoveFileCall(in) ==
  \E caller \in in.callers, id \in in.fileIds, newFolderId \in in.parentIds :
    /\ containsKey(getUserFiles(caller), id) =>
         fileSuffixOf(getUniqueFileName(caller, newFolderId,
           getUserFiles(caller)[id].name, Some(id))) <= MaxSuffix
    /\ moveFile(caller, id, newFolderId)

DeleteFileCall(in) ==
  \E caller \in in.callers, id \in in.fileIds :
    deleteFile(caller, id)

CreateTagCall(in) ==
  \E caller \in in.callers, name \in in.tagNames, color \in in.colors :
    /\ genTagId(caller) <= in.maxTags
    /\ createTag(caller, name, color)

UpdateTagCall(in) ==
  \E caller \in in.callers, id \in in.tagIds, name \in in.tagNames, color \in in.colors :
    updateTag(caller, id, name, color)

DeleteTagCall(in) ==
  \E caller \in in.callers, id \in in.tagIds :
    deleteTag(caller, id)

GetFolderPathCall(in) ==
  \E caller \in in.callers, folderId \in in.pathIds :
    getFolderPath(caller, folderId)

GetAllFilesCall(in) ==
  \E caller \in in.callers :
    getAllFiles(caller)

SearchFilesWithTagsCall(in) ==
  \E caller \in in.callers, searchTerm \in in.searchTerms,
     filterTagIds \in in.tagFilters :
    searchFilesWithTags(caller, searchTerm, filterTagIds)

GetAllFoldersCall(in) ==
  \E caller \in in.callers :
    getAllFolders(caller)

GetFolderContentsCall(in) ==
  \E caller \in in.callers, folderId \in in.parentIds :
    getFolderContents(caller, folderId)

GetAllTagsCall(in) ==
  \E caller \in in.callers :
    getAllTags(caller)

GetTagCall(in) ==
  \E caller \in in.callers, id \in in.tagIds :
    getTag(caller, id)

GetAllFilesInFolderCall(in) ==
  \E caller \in in.callers, folderId \in in.parentIds :
    getAllFilesInFolder(caller, folderId)

GetProfileCall(in) ==
  \E caller \in in.callers :
    getProfile(caller)

SetProfileCall(in) ==
  \E caller \in in.callers, name \in in.profileNames :
    setProfile(caller, name)

\* the clock moves on between two calls, up to in.maxNow
Tick(in) ==
  /\ now < in.maxNow
  /\ now' = now + 1
  /\ UNCHANGED <<data, response>>

\* tag id lists of length at most 2 over 1..n
tagListsUpTo(n) ==
  {<<>>} \cup {<<t>> : t \in 1..n} \cup {<<t, u>> : t \in 1..n, u \in 1..n}

\* ---------------------------------------------------------------- Spec
\* every update method, one principal, one name of each kind

MaxFolders == 2
MaxFiles == 2
MaxTags == 2

Inputs ==
  [callers |-> {"alice"},
   folderNames |-> {nameA}, fileNames |-> {nameA}, tagNames |-> {nameA},
   descriptions |-> {empty}, colors |-> {"red"},
   sizes |-> {1}, fileTypes |-> {"text"}, blobs |-> {"blob1"},
   tagLists |-> {<<>>} \cup {<<t>> : t \in 1..MaxTags},
   folderIds |-> 1..MaxFolders, parentIds |-> optional(1..MaxFolders),
   fileIds |-> 1..MaxFiles, tagIds |-> 1..MaxTags,
   maxFolders |-> MaxFolders, maxFiles |-> MaxFiles, maxTags |-> MaxTags]

Next ==
  \/ CreateFolderCall(Inputs)
  \/ RenameFolderCall(Inputs)
  \/ MoveFolderCall(Inputs)
  \/ DeleteFolderCall(Inputs)
  \/ UploadFileCall(Inputs)
  \/ UpdateFileCall(Inputs)
  \/ MoveFileCall(Inputs)
  \/ DeleteFileCall(Inputs)
  \/ CreateTagCall(Inputs)
  \/ UpdateTagCall(Inputs)
  \/ DeleteTagCall(Inputs)

Spec == Init /\ [][Next]_vars

\* --------------------------------------------------------- SpecFolders
\* the folder tree alone: more folders, and the empty name

FolderBound == 3

FolderInputs ==
  [callers |-> {"alice"}, folderNames |-> {empty, nameA},
   folderIds |-> 1..FolderBound, parentIds |-> optional(1..FolderBound),
   maxFolders |-> FolderBound]

NextFolders ==
  \/ CreateFolderCall(FolderInputs)
  \/ RenameFolderCall(FolderInputs)
  \/ MoveFolderCall(FolderInputs)
  \/ DeleteFolderCall(FolderInputs)

SpecFolders == Init /\ [][NextFolders]_vars

\* ----------------------------------------------------------- SpecNames
\* folders whose names collide: case variants and a name that is all suffix

NameBound == 3

NameInputs ==
  [callers |-> {"alice"}, folderNames |-> {nameA, nameUpperA, nameZeros},
   folderIds |-> 1..NameBound, parentIds |-> optional(1..NameBound),
   maxFolders |-> NameBound]

NextNames ==
  \/ CreateFolderCall(NameInputs)
  \/ RenameFolderCall(NameInputs)
  \/ MoveFolderCall(NameInputs)
  \/ DeleteFolderCall(NameInputs)

SpecNames == Init /\ [][NextNames]_vars

\* ------------------------------------------------------------ SpecTree
\* folders and the files in them

TreeFolders == 3
TreeFiles == 2

TreeInputs ==
  [callers |-> {"alice"},
   folderNames |-> {nameA}, fileNames |-> {nameA},
   descriptions |-> {empty}, sizes |-> {1}, fileTypes |-> {"text"},
   blobs |-> {"blob1"}, tagLists |-> {<<>>},
   folderIds |-> 1..TreeFolders, parentIds |-> optional(1..TreeFolders),
   fileIds |-> 1..TreeFiles,
   maxFolders |-> TreeFolders, maxFiles |-> TreeFiles]

NextTree ==
  \/ CreateFolderCall(TreeInputs)
  \/ MoveFolderCall(TreeInputs)
  \/ DeleteFolderCall(TreeInputs)
  \/ UploadFileCall(TreeInputs)
  \/ MoveFileCall(TreeInputs)
  \/ DeleteFileCall(TreeInputs)

SpecTree == Init /\ [][NextTree]_vars

\* ------------------------------------------------------------ SpecTags
\* files at the root and the tags on them

TaggedFiles == 2
TagBound == 2

TagInputs ==
  [callers |-> {"alice"},
   fileNames |-> {nameA}, tagNames |-> {nameA},
   descriptions |-> {empty}, colors |-> {"red"},
   sizes |-> {1}, fileTypes |-> {"text"}, blobs |-> {"blob1"},
   tagLists |-> tagListsUpTo(TagBound),
   parentIds |-> {null}, fileIds |-> 1..TaggedFiles, tagIds |-> 1..TagBound,
   maxFiles |-> TaggedFiles, maxTags |-> TagBound]

NextTags ==
  \/ UploadFileCall(TagInputs)
  \/ UpdateFileCall(TagInputs)
  \/ DeleteFileCall(TagInputs)
  \/ CreateTagCall(TagInputs)
  \/ UpdateTagCall(TagInputs)
  \/ DeleteTagCall(TagInputs)

SpecTags == Init /\ [][NextTags]_vars

\* ------------------------------------------------------------ SpecDeep
\* a tree already nested to one level below the depth cap: the state after
\* DeepStart calls createFolder("a", parent), each into the folder before

DeepStart == maxFolderDepth - 1
DeepExtra == 2

deepChain ==
  [k \in 1..DeepStart |->
     [id |-> k, name |-> nameA,
      parentId |-> IF k = 1 THEN null ELSE Some(k - 1),
      createdDate |-> 0, modifiedDate |-> 0]]

InitDeep ==
  /\ userProfiles = emptyMap
  /\ userFiles = emptyMap
  /\ userFolders = mapAdd(emptyMap, "alice", deepChain)
  /\ userTags = emptyMap
  /\ userNextFileId = emptyMap
  /\ userNextFolderId = mapAdd(emptyMap, "alice", DeepStart + 1)
  /\ userNextTagId = emptyMap
  /\ now = 0
  /\ response = [method |-> "createFolder", status |-> "reply", error |-> <<>>]

\* the calls create folders at the root, under the last folder of the chain and
\* under each other, and move and delete the folders they created
deepNew == (DeepStart + 1)..(DeepStart + DeepExtra)

DeepInputs ==
  [callers |-> {"alice"}, folderNames |-> {nameA},
   folderIds |-> deepNew, parentIds |-> optional({DeepStart} \cup deepNew),
   maxFolders |-> DeepStart + DeepExtra]

NextDeep ==
  \/ CreateFolderCall(DeepInputs)
  \/ MoveFolderCall(DeepInputs)
  \/ DeleteFolderCall(DeepInputs)

SpecDeep == InitDeep /\ [][NextDeep]_vars

\* ------------------------------------------------------------- SpecIds
\* two principals creating and deleting: both make folders, alice also
\* uploads files and makes tags

IdBound == 2

IdInputs ==
  [callers |-> {"alice", "bob"}, folderNames |-> {nameA},
   folderIds |-> 1..IdBound, parentIds |-> {null},
   maxFolders |-> IdBound]

IdInputsAlice ==
  [callers |-> {"alice"},
   fileNames |-> {nameA}, tagNames |-> {nameA},
   descriptions |-> {empty}, colors |-> {"red"},
   sizes |-> {1}, fileTypes |-> {"text"}, blobs |-> {"blob1"},
   tagLists |-> {<<>>}, parentIds |-> {null},
   fileIds |-> 1..IdBound, tagIds |-> 1..IdBound,
   maxFiles |-> IdBound, maxTags |-> IdBound]

NextIds ==
  \/ CreateFolderCall(IdInputs)
  \/ DeleteFolderCall(IdInputs)
  \/ UploadFileCall(IdInputsAlice)
  \/ DeleteFileCall(IdInputsAlice)
  \/ CreateTagCall(IdInputsAlice)
  \/ DeleteTagCall(IdInputsAlice)

SpecIds == Init /\ [][NextIds]_vars

\* ---------------------------------------------------------- properties
\* The properties speak of the stored records only; the relations they use
\* are defined here from the parent links, apart from the handlers' code.

\* the principals that own a collection
principals == DOMAIN userFolders \cup DOMAIN userFiles \cup DOMAIN userTags

\* the parent link of the folder from, none from a root or off the map
parentOf(folders, from) ==
  IF from = null \/ ~containsKey(folders, from[1]) THEN null
  ELSE folders[from[1]].parentId

\* the folder n parent links above from, none when the chain ends before
RECURSIVE climb(_, _, _)
climb(folders, from, n) ==
  IF n = 0 \/ from = null THEN from
  ELSE IF n = 1 THEN parentOf(folders, from)
  ELSE climb(folders, climb(folders, from, n \div 2), n - (n \div 2))

\* a is reached from d by one parent link or more
isAbove(folders, a, d) ==
  \E n \in 1..Cardinality(DOMAIN folders) : climb(folders, Some(d), n) = Some(a)

descendantsOf(folders, a) == {d \in DOMAIN folders : isAbove(folders, a, d)}

\* seq without the occurrences of x
without(seq, x) ==
  LET kept == {i \in 1..Len(seq) : seq[i] # x}
      rank(i) == Cardinality({j \in kept : j <= i})
  IN [n \in 1..Cardinality(kept) |-> seq[CHOOSE i \in kept : rank(i) = n]]

\* C1: within one parent folder (or the root) no two folders have names that
\* are equal ignoring case, and within one folder (or the root) no two files
\* have; this is to hold in every reachable state
C1_UniqueSiblingNames ==
  \A user \in principals :
    /\ \A a, b \in DOMAIN getUserFolders(user) :
         (a # b /\ getUserFolders(user)[a].parentId = getUserFolders(user)[b].parentId)
           => toLower(getUserFolders(user)[a].name) # toLower(getUserFolders(user)[b].name)
    /\ \A f, g \in DOMAIN getUserFiles(user) :
         (f # g /\ getUserFiles(user)[f].folderId = getUserFiles(user)[g].folderId)
           => toLower(getUserFiles(user)[f].name) # toLower(getUserFiles(user)[g].name)

\* C2: the parent links form no cycle: no folder is reached from itself by
\* following parent links
C2_Acyclic ==
  \A user \in principals :
    \A id \in DOMAIN getUserFolders(user) :
      ~isAbove(getUserFolders(user), id, id)

\* C2 witness: a moveFolder call has just put a folder under another one, and
\* some folder now has a grandparent
C2_MovedIntoNested ==
  /\ response.method = "moveFolder"
  /\ response.status = "reply"
  /\ \E id \in DOMAIN getUserFolders("alice") :
       climb(getUserFolders("alice"), Some(id), 2) # null

\* C3: the chain from any folder up to its root has at most maxFolderDepth
\* (100) folders, so no folder has a maxFolderDepth-th ancestor
C3_DepthWithinLimit ==
  \A user \in principals :
    \A id \in DOMAIN getUserFolders(user) :
      climb(getUserFolders(user), Some(id), maxFolderDepth) = null

\* C4: every tag id in a file's tagIds is the id of a tag in the owner's tags
C4_TagRefsExist ==
  \A user \in principals :
    \A f \in DOMAIN getUserFiles(user) :
      \A i \in 1..Len(getUserFiles(user)[f].tagIds) :
        containsKey(getUserTags(user), getUserFiles(user)[f].tagIds[i])

\* C4 witness: a deleteTag call has just removed tag 1 while a file still
\* carries tag 2
C4_TagDeletedFileTagged ==
  /\ response.method = "deleteTag"
  /\ response.status = "reply"
  /\ ~containsKey(getUserTags("alice"), 1)
  /\ \E f \in DOMAIN getUserFiles("alice") :
       getUserFiles("alice")[f].tagIds = <<2>>

\* C5: every parentId of a folder and every folderId of a file is none or the
\* id of a folder of the same owner
C5_FolderRefsExist ==
  \A user \in principals :
    /\ \A k \in DOMAIN getUserFolders(user) :
         \/ getUserFolders(user)[k].parentId = null
         \/ containsKey(getUserFolders(user), getUserFolders(user)[k].parentId[1])
    /\ \A f \in DOMAIN getUserFiles(user) :
         \/ getUserFiles(user)[f].folderId = null
         \/ containsKey(getUserFolders(user), getUserFiles(user)[f].folderId[1])

\* C5 witness: a deleteFolder call has just removed folders, and a nested
\* folder and a file in a folder are left
C5_DeletedBesideNested ==
  /\ response.method = "deleteFolder"
  /\ response.status = "reply"
  /\ \E k \in DOMAIN getUserFolders("alice") :
       getUserFolders("alice")[k].parentId # null
  /\ \E f \in DOMAIN getUserFiles("alice") :
       getUserFiles("alice")[f].folderId # null

\* the ids of a collection that a step issued, against the counter before and
\* after the step: the counter never goes back, and every id that appears is
\* at least the old counter and below the new one
issuedInOrder(before, after, counterBefore, counterAfter) ==
  /\ counterAfter >= counterBefore
  /\ \A id \in DOMAIN after \ DOMAIN before :
       counterBefore <= id /\ id < counterAfter

\* C6: within one principal and one kind (file, folder, tag) the ids issued are
\* strictly increasing and none is issued twice, even after deletions: every
\* step leaves each counter at or above its old value, and an id that comes
\* into a collection lies at or above the old counter and below the new one,
\* hence above every id issued before it
C6_IdsIncrease ==
  [][\A user \in IdInputs.callers :
       /\ issuedInOrder(getUserFolders(user), getUserFolders(user)',
                        genFolderId(user), genFolderId(user)')
       /\ issuedInOrder(getUserFiles(user), getUserFiles(user)',
                        genFileId(user), genFileId(user)')
       /\ issuedInOrder(getUserTags(user), getUserTags(user)',
                        genTagId(user), genTagId(user)')]_vars

\* C6 witness: alice deleted her first folder, file and tag, created a second
\* of each, and bob holds his own folder 1
C6_SecondAfterDelete ==
  /\ DOMAIN getUserFolders("alice") = {2}
  /\ DOMAIN getUserFiles("alice") = {2}
  /\ DOMAIN getUserTags("alice") = {2}
  /\ DOMAIN getUserFolders("bob") = {1}

\* C7: moveFolder(F, P) fails and leaves the state unchanged whenever P is F
\* or P is a descendant of F
C7_MoveIntoSubtreeFails ==
  [][\A caller \in FolderInputs.callers :
       \A F \in FolderInputs.folderIds, P \in FolderInputs.folderIds :
         ( /\ P = F \/ isAbove(getUserFolders(caller), F, P)
           /\ moveFolder(caller, F, Some(P)) )
         => response'.status = "reject" /\ UNCHANGED data]_vars

\* C7 witness: a moveFolder call into a grandchild has just been refused
C7_RefusedIntoGrandchild ==
  /\ response.method = "moveFolder"
  /\ response.status = "reject"
  /\ response.error = <<"Cannot move folder into its own descendant">>
  /\ \E id \in DOMAIN getUserFolders("alice") :
       climb(getUserFolders("alice"), Some(id), 2) # null

\* F exists, and P is none or an existing folder that is neither F nor a
\* descendant of F
otherTarget(folders, F, P) ==
  /\ containsKey(folders, F)
  /\ \/ P = null
     \/ /\ containsKey(folders, P[1])
        /\ P[1] # F
        /\ ~isAbove(folders, F, P[1])

C9_DeleteRemovesSubtree ==
  [][\A caller \in TreeInputs.callers :
       \A F \in TreeInputs.folderIds :
         ( /\ response'.method = "deleteFolder"
           /\ containsKey(getUserFolders(caller), F)
           /\ deleteFolder(caller, F) )
         => LET folders == getUserFolders(caller)
                files == getUserFiles(caller)
                gone == {F} \cup descendantsOf(folders, F)
                lost == {f \in DOMAIN files :
                           /\ files[f].folderId # null
                           /\ files[f].folderId[1] \in gone}
            IN /\ response'.status = "reply"
               /\ DOMAIN getUserFolders(caller)' = DOMAIN folders \ gone
               /\ \A k \in DOMAIN folders \ gone :
                    getUserFolders(caller)'[k] = folders[k]
               /\ DOMAIN getUserFiles(caller)' = DOMAIN files \ lost
               /\ \A f \in DOMAIN files \ lost :
                    getUserFiles(caller)'[f] = files[f]]_vars

\* C9 witness: a deleteFolder call has just succeeded; three folders and two
\* files were made, and what is left is one file
C9_SubtreeGone ==
  /\ response.method = "deleteFolder"
  /\ response.status = "reply"
  /\ genFolderId("alice") = TreeFolders + 1
  /\ DOMAIN getUserFolders("alice") = {}
  /\ genFileId("alice") = TreeFiles + 1
  /\ Cardinality(DOMAIN getUserFiles("alice")) = 1

\* C10: after deleteTag(T), T is in tags no more and in no file's tagIds, and
\* every file keeps the other tag ids it had, in their order.  (The first
\* conjunct follows from the third; it spares evaluating the handler on the
\* steps of the other methods.)
C10_DeleteTagStripsFiles ==
  [][\A caller \in TagInputs.callers :
       \A T \in TagInputs.tagIds :
         ( /\ response'.method = "deleteTag"
           /\ containsKey(getUserTags(caller), T)
           /\ deleteTag(caller, T) )
         => /\ response'.status = "reply"
            /\ DOMAIN getUserTags(caller)' = DOMAIN getUserTags(caller) \ {T}
            /\ DOMAIN getUserFiles(caller)' = DOMAIN getUserFiles(caller)
            /\ \A f \in DOMAIN getUserFiles(caller) :
                 /\ \A i \in 1..Len(getUserFiles(caller)'[f].tagIds) :
                      getUserFiles(caller)'[f].tagIds[i] # T
                 /\ getUserFiles(caller)'[f].tagIds =
                      without(getUserFiles(caller)[f].tagIds, T)]_vars

\* C10 witness: a deleteTag call has just removed tag 2, tag 1 is kept, one
\* file carries tag 1 and another carries no tag
C10_OtherTagKept ==
  /\ response.method = "deleteTag"
  /\ response.status = "reply"
  /\ DOMAIN getUserTags("alice") = {1}
  /\ \E f, g \in DOMAIN getUserFiles("alice") :
       /\ getUserFiles("alice")[f].tagIds = <<1>>
       /\ getUserFiles("alice")[g].tagIds = <<>>

\* -------------------------------------------------------- SpecFailures
\* every update method with the inputs that fail: empty names, ids that do
\* not resolve, moves into the folder itself and into its subtree from the
\* empty actor, and moves that reach the depth cap from the nested tree of
\* SpecDeep

FailFolders == 2
FailFiles == 1
FailTags == 1

FailInputs ==
  [callers |-> {"alice"},
   folderNames |-> {empty, nameA}, fileNames |-> {empty, nameA},
   tagNames |-> {empty, nameA},
   descriptions |-> {empty}, colors |-> {"red"},
   sizes |-> {1}, fileTypes |-> {"text"}, blobs |-> {"blob1"},
   tagLists |-> tagListsUpTo(FailTags),
   folderIds |-> 1..FailFolders, parentIds |-> optional(1..FailFolders),
   fileIds |-> 1..FailFiles, tagIds |-> 1..FailTags,
   maxFolders |-> FailFolders, maxFiles |-> FailFiles, maxTags |-> FailTags]

InitFailures == Init \/ InitDeep

\* the run started from the nested tree
nested == containsKey(getUserFolders("alice"), DeepStart)

NextFailures ==
  \/ ~nested /\ CreateFolderCall(FailInputs)
  \/ ~nested /\ RenameFolderCall(FailInputs)
  \/ ~nested /\ MoveFolderCall(FailInputs)
  \/ ~nested /\ DeleteFolderCall(FailInputs)
  \/ ~nested /\ UploadFileCall(FailInputs)
  \/ ~nested /\ UpdateFileCall(FailInputs)
  \/ ~nested /\ MoveFileCall(FailInputs)
  \/ ~nested /\ DeleteFileCall(FailInputs)
  \/ ~nested /\ CreateTagCall(FailInputs)
  \/ ~nested /\ UpdateTagCall(FailInputs)
  \/ ~nested /\ DeleteTagCall(FailInputs)
  \/ nested /\ CreateFolderCall(DeepInputs)
  \/ nested /\ MoveFolderCall(DeepInputs)

SpecFailures == InitFailures /\ [][NextFailures]_vars

PathInputs ==
  [callers |-> {"alice"}, folderNames |-> {nameA},
   folderIds |-> deepNew, parentIds |-> optional({DeepStart} \cup deepNew),
   maxFolders |-> DeepStart + DeepExtra,
   pathIds |-> {DeepStart} \cup deepNew]

NextPaths ==
  \/ CreateFolderCall(PathInputs)
  \/ MoveFolderCall(PathInputs)
  \/ GetFolderPathCall(PathInputs)

SpecPaths == InitDeep /\ [][NextPaths]_vars

\* path lists the folders from leaf up to its root, with no gap
leafToRoot(folders, leaf, path) ==
  /\ Len(path) >= 1
  /\ path[1] = folders[leaf]
  /\ \A i \in 1..(Len(path) - 1) :
       /\ path[i].parentId = Some(path[i + 1].id)
       /\ path[i + 1] = folders[path[i + 1].id]
  /\ path[Len(path)].parentId = null

\* C12: getFolderPath(leaf) on an existing folder returns the folders from
\* leaf to its root with no gap: the first is leaf, each next one is the
\* folder the one before names as its parent, the last has no parent, and
\* there are at most maxFolderDepth (100) of them
C12_PathLeafToRoot ==
  [][\A caller \in PathInputs.callers :
       \A leaf \in PathInputs.pathIds :
         ( /\ containsKey(getUserFolders(caller), leaf)
           /\ getFolderPath(caller, leaf) )
         => /\ response'.status = "reply"
            /\ leafToRoot(getUserFolders(caller), leaf, response'.value)
            /\ Len(response'.value) <= maxFolderDepth]_vars

\* C13: for a folder whose chain up to its root has at most maxFolderDepth
\* (100) folders, exactly 100 included, getFolderPath returns the whole chain,
\* and a moveFolder call whose new parent is such a folder does not fail on
\* the depth cap
C13_NoDepthFailureWithinLimit ==
  [][\A caller \in PathInputs.callers :
       /\ \A leaf \in PathInputs.pathIds :
            ( /\ containsKey(getUserFolders(caller), leaf)
              /\ climb(getUserFolders(caller), Some(leaf), maxFolderDepth) = null
              /\ getFolderPath(caller, leaf) )
            => /\ response'.status = "reply"
               /\ leafToRoot(getUserFolders(caller), leaf, response'.value)
       /\ \A F \in PathInputs.folderIds, P \in PathInputs.pathIds :
            ( /\ containsKey(getUserFolders(caller), P)
              /\ climb(getUserFolders(caller), Some(P), maxFolderDepth) = null
              /\ moveFolder(caller, F, Some(P)) )
            => response'.error #
                 <<"Folder hierarchy too deep or circular reference detected">>]_vars

\* --------------------------------------------------------- SpecResolve
\* folders and files together, named alike up to case and up to a suffix,
\* in the root and in folder 1

ResolveFolders == 2
ResolveFiles == 2

nameA1 == <<"a", " ", "(", "1", ")">>
nameAx == <<"a", ".", "x">>
nameUpperAx == <<"A", ".", "X">>
nameA1x == <<"a", " ", "(", "1", ")", ".", "x">>

ResolveInputs ==
  [callers |-> {"alice"},
   folderNames |-> {nameA, nameUpperA, nameA1},
   fileNames |-> {nameAx, nameUpperAx, nameA1x},
   descriptions |-> {empty}, tagLists |-> {<<>>},
   sizes |-> {1}, fileTypes |-> {"text"}, blobs |-> {"blob1"},
   folderIds |-> 1..ResolveFolders, parentIds |-> optional({1}),
   fileIds |-> 1..ResolveFiles,
   maxFolders |-> ResolveFolders, maxFiles |-> ResolveFiles]

NextResolve ==
  \/ CreateFolderCall(ResolveInputs)
  \/ RenameFolderCall(ResolveInputs)
  \/ MoveFolderCall(ResolveInputs)
  \/ UploadFileCall(ResolveInputs)
  \/ UpdateFileCall(ResolveInputs)
  \/ MoveFileCall(ResolveInputs)

SpecResolve == Init /\ [][NextResolve]_vars

\* the letters that differ only in case
casePairs == {<<"a", "A">>, <<"b", "B">>, <<"x", "X">>}

sameLetter(c, d) == c = d \/ <<c, d>> \in casePairs \/ <<d, c>> \in casePairs

\* two texts equal up to the case of their letters
sameIgnoringCase(t, u) ==
  /\ Len(t) = Len(u)
  /\ \A i \in 1..Len(t) : sameLetter(t[i], u[i])

\* the records of a container other than one record
othersIn(records, field, container, self) ==
  {k \in DOMAIN records : k # self /\ records[k][field] = container}

\* no other record of the container is named as name, up to case
freeIn(records, field, container, self, name) ==
  \A k \in othersIn(records, field, container, self) :
    ~sameIgnoringCase(records[k].name, name)

\* C14: when the desired name equals, up to case, the name of no other record
\* of the target container, a create, rename or move of a folder or of a file
\* that replies stores the record under exactly the desired name (for a move,
\* the name the record had).  The first conjunct of each case repeats what the
\* handler sets and only makes the evaluation cheaper.
C14_FreeNameKept ==
  [][LET folders == getUserFolders("alice")
         files == getUserFiles("alice")
     IN /\ \A name \in ResolveInputs.folderNames, parentId \in ResolveInputs.parentIds :
             /\ response'.method = "createFolder"
             /\ response'.status = "reply"
             /\ createFolder("alice", name, parentId)
             /\ freeIn(folders, "parentId", parentId, 0, name)
             => userFolders'["alice"][genFolderId("alice")].name = name
        /\ \A id \in ResolveInputs.folderIds, name \in ResolveInputs.folderNames :
             /\ response'.method = "renameFolder"
             /\ response'.status = "reply"
             /\ renameFolder("alice", id, name)
             /\ freeIn(folders, "parentId", folders[id].parentId, id, name)
             => userFolders'["alice"][id].name = name
        /\ \A id \in ResolveInputs.folderIds, parentId \in ResolveInputs.parentIds :
             /\ response'.method = "moveFolder"
             /\ response'.status = "reply"
             /\ moveFolder("alice", id, parentId)
             /\ freeIn(folders, "parentId", parentId, id, folders[id].name)
             => userFolders'["alice"][id].name = folders[id].name
        /\ \A name \in ResolveInputs.fileNames, folderId \in ResolveInputs.parentIds :
             /\ response'.method = "uploadFile"
             /\ response'.status = "reply"
             /\ uploadFile("alice", name, empty, <<>>, folderId, 1, "text", "blob1")
             /\ freeIn(files, "folderId", folderId, 0, name)
             => userFiles'["alice"][genFileId("alice")].name = name
        /\ \A id \in ResolveInputs.fileIds, name \in ResolveInputs.fileNames :
             /\ response'.method = "updateFile"
             /\ response'.status = "reply"
             /\ updateFile("alice", id, name, empty, <<>>)
             /\ freeIn(files, "folderId", files[id].folderId, id, name)
             => userFiles'["alice"][id].name = name
        /\ \A id \in ResolveInputs.fileIds, folderId \in ResolveInputs.parentIds :
             /\ response'.method = "moveFile"
             /\ response'.status = "reply"
             /\ moveFile("alice", id, folderId)
             /\ freeIn(files, "folderId", folderId, id, files[id].name)
             => userFiles'["alice"][id].name = files[id].name
    ]_vars

\* C14 witness: a folder named "a (1)" lies beside a folder named "a", and a
\* file named "a (1).x" beside a file named "A.X": each name was free when it
\* was asked for, and each differs from its neighbour by a suffix only
C14_SuffixedNamesKept ==
  LET folders == getUserFolders("alice")
      files == getUserFiles("alice")
  IN /\ DOMAIN folders = {1, 2}
     /\ folders[1].parentId = null /\ folders[2].parentId = null
     /\ folders[1].name = nameA /\ folders[2].name = nameA1
     /\ DOMAIN files = {1, 2}
     /\ files[1].folderId = Some(1) /\ files[2].folderId = Some(1)
     /\ files[1].name = nameUpperAx /\ files[2].name = nameA1x
     /\ response.method = "updateFile" /\ response.status = "reply"

\* ---------------------------------------------------------- SpecSuffix
\* folders whose names collide: bare, numbered, of either case, and numbered
\* with an empty base

SuffixFolders == 3

nameReport == <<"R", "e", "p", "o", "r", "t">>

SuffixInputs ==
  [callers |-> {"alice"},
   folderNames |-> {nameA, nameUpperA, nameA1, nameZeros, nameReport},
   folderIds |-> 1..SuffixFolders, parentIds |-> optional({1}),
   maxFolders |-> SuffixFolders]

NextSuffix ==
  \/ CreateFolderCall(SuffixInputs)
  \/ RenameFolderCall(SuffixInputs)
  \/ MoveFolderCall(SuffixInputs)
  \/ DeleteFolderCall(SuffixInputs)

SpecSuffix == Init /\ [][NextSuffix]_vars

\* the value of each decimal digit
decimal ==
  ("0" :> 0) @@ ("1" :> 1) @@ ("2" :> 2) @@ ("3" :> 3) @@ ("4" :> 4) @@
  ("5" :> 5) @@ ("6" :> 6) @@ ("7" :> 7) @@ ("8" :> 8) @@ ("9" :> 9)

isDecimal(t) == t # <<>> /\ \A i \in 1..Len(t) : t[i] \in DOMAIN decimal

\* the number a text of decimal digits writes
RECURSIVE decimalValue(_)
decimalValue(t) ==
  IF t = <<>> THEN 0
  ELSE 10 * decimalValue(SubSeq(t, 1, Len(t) - 1)) + decimal[t[Len(t)]]

\* the lengths of the bases b for which name is b, " (", digits, ")": none
\* when name has fewer than 5 characters
suffixSplits(name) ==
  {b \in 0..(Len(name) - 4) :
     /\ Len(name) >= 5
     /\ name[b + 1] = " " /\ name[b + 2] = "(" /\ name[Len(name)] = ")"
     /\ isDecimal(SubSeq(name, b + 3, Len(name) - 1))}

\* a name without its trailing " (digits)", and the number in it (0 if none)
strippedBase(name) ==
  IF suffixSplits(name) = {} THEN name
  ELSE SubSeq(name, 1, CHOOSE b \in suffixSplits(name) : TRUE)

suffixNumber(name) ==
  IF suffixSplits(name) = {} THEN 0
  ELSE decimalValue(SubSeq(name, (CHOOSE b \in suffixSplits(name) : TRUE) + 3,
                           Len(name) - 1))

\* stored is base, " (", the decimal numeral of n, ")"
isNumbered(stored, base, n) ==
  LET digits == SubSeq(stored, Len(base) + 3, Len(stored) - 1)
  IN /\ Len(stored) >= Len(base) + 4
     /\ SubSeq(stored, 1, Len(base)) = base
     /\ stored[Len(base) + 1] = " " /\ stored[Len(base) + 2] = "("
     /\ stored[Len(stored)] = ")"
     /\ isDecimal(digits) /\ digits[1] # "0"
     /\ decimalValue(digits) = n

\* the largest number among the folders of others whose stripped base is
\* base up to case
largestSuffix(folders, others, base) ==
  Max({suffixNumber(folders[k].name) :
         k \in {o \in others : sameIgnoringCase(strippedBase(folders[o].name), base)}})

\* stored is the name the rule gives desired among the folders of others
numberedAfter(folders, others, desired, stored) ==
  isNumbered(stored, strippedBase(desired),
             largestSuffix(folders, others, strippedBase(desired)) + 1)

NamedFiles == 3

nameA1y == <<"a", " ", "(", "1", ")", ".", "y">>

FileNameInputs ==
  [callers |-> {"alice"}, folderNames |-> {nameA},
   fileNames |-> {nameAx, nameUpperAx, nameA1x, nameA1y},
   descriptions |-> {empty}, tagLists |-> {<<>>},
   sizes |-> {1}, fileTypes |-> {"text"}, blobs |-> {"blob1"},
   parentIds |-> optional({1}), fileIds |-> 1..NamedFiles,
   maxFolders |-> 1, maxFiles |-> NamedFiles]

NextFileNames ==
  \/ CreateFolderCall(FileNameInputs)
  \/ UploadFileCall(FileNameInputs)
  \/ UpdateFileCall(FileNameInputs)
  \/ MoveFileCall(FileNameInputs)
  \/ DeleteFileCall(FileNameInputs)

SpecFileNames == Init /\ [][NextFileNames]_vars

\* the places of the dots of a name
dots(name) == {i \in 1..Len(name) : name[i] = "."}

\* a name has an extension when its last dot is not its first character
hasExtension(name) == dots(name) # {} /\ Max(dots(name)) > 1

\* what follows the last dot, and what precedes it
extensionOf(name) ==
  IF hasExtension(name) THEN SubSeq(name, Max(dots(name)) + 1, Len(name)) ELSE <<>>

stemOf(name) ==
  IF hasExtension(name) THEN SubSeq(name, 1, Max(dots(name)) - 1) ELSE name

\* the files of others whose stripped base and extension are those of
\* desired, up to case
sameBaseAndExtension(files, others, desired) ==
  {o \in others :
     /\ sameIgnoringCase(strippedBase(stemOf(files[o].name)),
                         strippedBase(stemOf(desired)))
     /\ sameIgnoringCase(extensionOf(files[o].name), extensionOf(desired))}

\* stored is the name the rule gives desired, a name with an extension, among
\* the files of others
numberedBeforeExtension(files, others, desired, stored) ==
  /\ hasExtension(stored)
  /\ extensionOf(stored) = extensionOf(desired)
  /\ isNumbered(stemOf(stored), strippedBase(stemOf(desired)),
       Max({suffixNumber(stemOf(files[k].name)) :
              k \in sameBaseAndExtension(files, others, desired)}) + 1)

\* C16: when the desired name of a file has an extension and equals, up to
\* case, the name of another file of the target folder, an uploadFile,
\* updateFile or moveFile that replies stores base (m+1).ext: ext is the
\* extension as it was asked for, base is what precedes the last dot without
\* its trailing " (digits)", and m is the largest number among the other files
\* of the folder whose base and extension are both the same up to case.  The
\* first conjunct of each case repeats what the handler sets, and containsKey
\* what a reply implies; they only make the evaluation cheaper.
C16_CollidingFileNumbered ==
  [][LET files == getUserFiles("alice")
     IN /\ \A name \in FileNameInputs.fileNames, folderId \in FileNameInputs.parentIds :
             /\ response'.method = "uploadFile"
             /\ response'.status = "reply"
             /\ extensionOf(name) # <<>>
             /\ ~freeIn(files, "folderId", folderId, 0, name)
             /\ uploadFile("alice", name, empty, <<>>, folderId, 1, "text", "blob1")
             => numberedBeforeExtension(files, othersIn(files, "folderId", folderId, 0),
                                        name, userFiles'["alice"][genFileId("alice")].name)
        /\ \A id \in FileNameInputs.fileIds, name \in FileNameInputs.fileNames :
             /\ response'.method = "updateFile"
             /\ response'.status = "reply"
             /\ extensionOf(name) # <<>>
             /\ containsKey(files, id)
             /\ ~freeIn(files, "folderId", files[id].folderId, id, name)
             /\ updateFile("alice", id, name, empty, <<>>)
             => numberedBeforeExtension(files,
                                        othersIn(files, "folderId", files[id].folderId, id),
                                        name, userFiles'["alice"][id].name)
        /\ \A id \in FileNameInputs.fileIds, folderId \in FileNameInputs.parentIds :
             /\ response'.method = "moveFile"
             /\ response'.status = "reply"
             /\ containsKey(files, id)
             /\ extensionOf(files[id].name) # <<>>
             /\ ~freeIn(files, "folderId", folderId, id, files[id].name)
             /\ moveFile("alice", id, folderId)
             => numberedBeforeExtension(files, othersIn(files, "folderId", folderId, id),
                                        files[id].name, userFiles'["alice"][id].name)
    ]_vars

\* C16 witness: "a (1).x" and "A.X" were free; uploadFile("a.x") then met
\* "A.X" and got 2 before its own extension
C16_NumberedBeforeExtension ==
  LET files == getUserFiles("alice")
  IN /\ DOMAIN files = {1, 2, 3}
     /\ \A k \in 1..3 : files[k].folderId = null
     /\ files[1].name = nameA1x
     /\ files[2].name = nameUpperAx
     /\ files[3].name = <<"a", " ", "(", "2", ")", ".", "x">>
     /\ response.method = "uploadFile" /\ response.status = "reply"

\* ----------------------------------------------------------- SpecPhoto
\* files that are all asked to be "photo.jpg", in the root and in folder 1

PhotoFiles == 3

namePhoto == <<"p", "h", "o", "t", "o", ".", "j", "p", "g">>
namePhoto1 == <<"p", "h", "o", "t", "o", " ", "(", "1", ")", ".", "j", "p", "g">>
namePhoto2 == <<"p", "h", "o", "t", "o", " ", "(", "2", ")", ".", "j", "p", "g">>

PhotoInputs ==
  [callers |-> {"alice"}, folderNames |-> {nameA}, fileNames |-> {namePhoto},
   descriptions |-> {empty}, tagLists |-> {<<>>},
   sizes |-> {1}, fileTypes |-> {"text"}, blobs |-> {"blob1"},
   parentIds |-> optional({1}), fileIds |-> 1..PhotoFiles,
   maxFolders |-> 1, maxFiles |-> PhotoFiles]

NextPhoto ==
  \/ CreateFolderCall(PhotoInputs)
  \/ UploadFileCall(PhotoInputs)
  \/ UpdateFileCall(PhotoInputs)
  \/ MoveFileCall(PhotoInputs)
  \/ DeleteFileCall(PhotoInputs)

SpecPhoto == Init /\ [][NextPhoto]_vars

\* file id has one neighbour in its folder, and that one is named "photo.jpg"
besidePhoto(files, id) ==
  /\ containsKey(files, id)
  /\ Cardinality(othersIn(files, "folderId", files[id].folderId, id)) = 1
  /\ \A o \in othersIn(files, "folderId", files[id].folderId, id) :
       files[o].name = namePhoto

\* updateFile(id, "photo.jpg") replied and stored the name stored
renamedToPhoto(id, stored) ==
  /\ response'.method = "updateFile"
  /\ response'.status = "reply"
  /\ updateFile("alice", id, namePhoto, empty, <<>>)
  /\ userFiles'["alice"][id].name = stored

\* C17 as stated: updateFile(id, "photo.jpg") on a file whose one neighbour is
\* named "photo.jpg" stores "photo (1).jpg", and when the file is by then named
\* "photo (1).jpg" the same call stores "photo (2).jpg"
C17_RenamedAgainGetsTwo ==
  [][\A id \in PhotoInputs.fileIds :
       /\ besidePhoto(getUserFiles("alice"), id)
       /\ \E stored \in {namePhoto, namePhoto1, namePhoto2} : renamedToPhoto(id, stored)
       => /\ getUserFiles("alice")[id].name # namePhoto1
             => renamedToPhoto(id, namePhoto1)
          /\ getUserFiles("alice")[id].name = namePhoto1
             => renamedToPhoto(id, namePhoto2)
    ]_vars

\* C17 amended: updateFile(id, "photo.jpg") on a file whose one neighbour is
\* named "photo.jpg" stores "photo (1).jpg", and stores "photo (1).jpg" again
\* when the file is by then named "photo (1).jpg": the file that is renamed is
\* not one of its own siblings
C17_RenamedAgainKeepsOne ==
  [][\A id \in PhotoInputs.fileIds :
       /\ besidePhoto(getUserFiles("alice"), id)
       /\ \E stored \in {namePhoto, namePhoto1, namePhoto2} : renamedToPhoto(id, stored)
       => renamedToPhoto(id, namePhoto1)
    ]_vars

\* C17 witness: updateFile has replied, and file 2 is "photo (1).jpg" beside
\* file 1, "photo.jpg", the only other file of the root
C17_PhotoOneBesidePhoto ==
  LET files == getUserFiles("alice")
  IN /\ besidePhoto(files, 2)
     /\ files[2].folderId = null
     /\ containsKey(files, 1) /\ files[1].folderId = null
     /\ files[2].name = namePhoto1
     /\ response.method = "updateFile" /\ response.status = "reply"

\* every file of others differs from desired, up to case, in what precedes the
\* last dot or in the extension
differsFromAll(files, others, desired) ==
  \A o \in others :
    \/ ~sameIgnoringCase(stemOf(files[o].name), stemOf(desired))
    \/ ~sameIgnoringCase(extensionOf(files[o].name), extensionOf(desired))

\* the files of others with the extension of desired, up to case
sameExtension(files, others, desired) ==
  {o \in others : sameIgnoringCase(extensionOf(files[o].name), extensionOf(desired))}

\* stored is desired when no file of others collides with it, and is in every
\* case the name that would be stored were the files of another extension absent
storedByBaseAndExtension(files, others, desired, stored) ==
  /\ differsFromAll(files, others, desired) => stored = desired
  /\ stored = uniqueFileNameAmong(files, sameExtension(files, others, desired), desired)

\* C18: an uploadFile, updateFile or moveFile that replies stores the desired
\* name itself when every other file of the target folder differs from it, up
\* to case, in the base before the extension or in the extension; and the name
\* it stores is the one it would store if the other files whose extension
\* differs were not there, so they have no part in the number.  The first
\* conjunct of each case repeats what the handler sets, and containsKey what a
\* reply implies; they only make the evaluation cheaper.
C18_OtherExtensionsIgnored ==
  [][LET files == getUserFiles("alice")
     IN /\ \A name \in FileNameInputs.fileNames, folderId \in FileNameInputs.parentIds :
             /\ response'.method = "uploadFile"
             /\ response'.status = "reply"
             /\ uploadFile("alice", name, empty, <<>>, folderId, 1, "text", "blob1")
             => storedByBaseAndExtension(files, othersIn(files, "folderId", folderId, 0),
                                         name, userFiles'["alice"][genFileId("alice")].name)
        /\ \A id \in FileNameInputs.fileIds, name \in FileNameInputs.fileNames :
             /\ response'.method = "updateFile"
             /\ response'.status = "reply"
             /\ containsKey(files, id)
             /\ updateFile("alice", id, name, empty, <<>>)
             => storedByBaseAndExtension(files,
                                         othersIn(files, "folderId", files[id].folderId, id),
                                         name, userFiles'["alice"][id].name)
        /\ \A id \in FileNameInputs.fileIds, folderId \in FileNameInputs.parentIds :
             /\ response'.method = "moveFile"
             /\ response'.status = "reply"
             /\ containsKey(files, id)
             /\ moveFile("alice", id, folderId)
             => storedByBaseAndExtension(files, othersIn(files, "folderId", folderId, id),
                                         files[id].name, userFiles'["alice"][id].name)
    ]_vars

\* C18 witness: "a.x" and "a (1).y" were free; uploadFile("A.X") then met
\* "a.x" and got 1, the 1 of "a (1).y" not counting
C18_NumberedDespiteOtherExtension ==
  LET files == getUserFiles("alice")
  IN /\ DOMAIN files = {1, 2, 3}
     /\ \A k \in 1..3 : files[k].folderId = null
     /\ files[1].name = nameAx
     /\ files[2].name = nameA1y
     /\ files[3].name = <<"A", " ", "(", "1", ")", ".", "X">>
     /\ response.method = "uploadFile" /\ response.status = "reply"

\* ---------------------------------------------------------- SpecSearch
\* the two file queries over files that a term can match by name, by
\* description or by the name of a tag, and a filter by tag

FoundFiles == 2
FoundTags == 2

nameAb == <<"a", "b">>
nameB == <<"b">>
nameUpperB == <<"B">>
nameX == <<"x">>
nameUpperX == <<"X">>

SearchInputs ==
  [callers |-> {"alice"},
   fileNames |-> {nameA, nameAb}, descriptions |-> {empty, nameX},
   tagNames |-> {nameB, nameUpperX}, colors |-> {"red"},
   sizes |-> {1}, fileTypes |-> {"text"}, blobs |-> {"blob1"},
   tagLists |-> {<<>>, <<1>>, <<1, 2>>},
   parentIds |-> {null}, fileIds |-> 1..FoundFiles, tagIds |-> 1..FoundTags,
   maxFiles |-> FoundFiles, maxTags |-> FoundTags,
   searchTerms |-> {empty, nameUpperB, nameX},
   tagFilters |-> {<<>>, <<1>>, <<2, 1>>}]

NextSearch ==
  \/ UploadFileCall(SearchInputs)
  \/ UpdateFileCall(SearchInputs)
  \/ CreateTagCall(SearchInputs)
  \/ DeleteTagCall(SearchInputs)
  \/ GetAllFilesCall(SearchInputs)
  \/ SearchFilesWithTagsCall(SearchInputs)

SpecSearch == Init /\ [][NextSearch]_vars

\* C19: searchFilesWithTags with the empty term and the empty filter returns
\* what getAllFiles returns: when it is called right after getAllFiles has
\* answered, queries leaving the files as they are, its answer is the same
C19_EmptySearchIsGetAllFiles ==
  [][/\ response.method = "getAllFiles"
     /\ response'.method = "searchFilesWithTags"
     /\ searchFilesWithTags("alice", empty, <<>>)
     => /\ response'.status = response.status
        /\ response'.error = response.error
        /\ response'.value = response.value
    ]_vars

\* C19 witness: a search has returned both files, one of which has no tag, the
\* name "a" and no description, so that only the empty term and the empty
\* filter let it through
C19_EverythingFound ==
  LET files == getUserFiles("alice")
  IN /\ DOMAIN files = {1, 2}
     /\ files[1].name = nameA /\ files[1].description = empty
     /\ files[1].tagIds = <<>>
     /\ files[2].name = nameAb /\ files[2].tagIds = <<1>>
     /\ response.method = "searchFilesWithTags" /\ response.status = "reply"
     /\ response.value = <<files[1], files[2]>>

\* term occurs in text, up to case
occursIn(term, text) ==
  \E at0 \in 0..(Len(text) - Len(term)) :
    \A i \in 1..Len(term) : sameLetter(text[at0 + i], term[i])

\* the ids a list names
idsOf(list) == {list[i] : i \in 1..Len(list)}

\* file f is what a search for term among the tags of filter asks for
wanted(tags, f, term, filter) ==
  /\ \/ term = <<>>
     \/ occursIn(term, f.name)
     \/ occursIn(term, f.description)
     \/ \E t \in idsOf(f.tagIds) \cap DOMAIN tags : occursIn(term, tags[t].name)
  /\ \/ filter = <<>>
     \/ idsOf(f.tagIds) \cap idsOf(filter) # {}

\* C20: with a term or a filter that is not empty, searchFilesWithTags returns
\* exactly the caller's files, each once, for which the term is empty or occurs
\* up to case in the name, in the description or in the name of one of the
\* file's tags, and the filter is empty or names one of the file's tags
C20_SearchReturnsMatches ==
  [][\A term \in SearchInputs.searchTerms, filter \in SearchInputs.tagFilters :
       /\ response'.method = "searchFilesWithTags"
       /\ ~(term = <<>> /\ filter = <<>>)
       /\ searchFilesWithTags("alice", term, filter)
       => LET files == getUserFiles("alice")
              found == {k \in DOMAIN files :
                          wanted(getUserTags("alice"), files[k], term, filter)}
          IN /\ response'.status = "reply"
             /\ idsOf(response'.value) = {files[k] : k \in found}
             /\ Len(response'.value) = Cardinality(found)
    ]_vars

\* C20 witness: of two files the search has returned the second alone, which
\* has no tag and only its description, "x", to match a term; the first is
\* tagged "b"
C20_FoundByDescription ==
  LET files == getUserFiles("alice")
      tags == getUserTags("alice")
  IN /\ DOMAIN files = {1, 2}
     /\ files[1].description = empty /\ files[1].tagIds = <<1>>
     /\ containsKey(tags, 1) /\ tags[1].name = nameB
     /\ files[2].description = nameX /\ files[2].tagIds = <<>>
     /\ response.method = "searchFilesWithTags" /\ response.status = "reply"
     /\ response.value = <<files[2]>>

\* --------------------------------------------------------- SpecTenants
\* two principals: alice calls every update method, with arguments that make
\* it fail as well; bob builds a folder, a file, a tag and a profile of other
\* names, and he alone calls the queries

TenantBound == 1

AliceInputs ==
  [callers |-> {"alice"},
   folderNames |-> {empty, nameA}, fileNames |-> {nameA}, tagNames |-> {nameA},
   profileNames |-> {empty, nameA},
   descriptions |-> {empty}, colors |-> {"red"},
   sizes |-> {1}, fileTypes |-> {"text"}, blobs |-> {"blob1"},
   tagLists |-> {<<>>, <<1>>},
   folderIds |-> 1..TenantBound, parentIds |-> optional(1..TenantBound),
   fileIds |-> 1..TenantBound, tagIds |-> 1..TenantBound,
   maxFolders |-> TenantBound, maxFiles |-> TenantBound, maxTags |-> TenantBound]

BobInputs ==
  [callers |-> {"bob"},
   folderNames |-> {nameB}, fileNames |-> {nameB}, tagNames |-> {nameB},
   profileNames |-> {nameB},
   descriptions |-> {nameB}, colors |-> {"blue"},
   sizes |-> {2}, fileTypes |-> {"text"}, blobs |-> {"blob2"},
   tagLists |-> {<<1>>},
   folderIds |-> 1..TenantBound, parentIds |-> optional(1..TenantBound),
   fileIds |-> 1..TenantBound, tagIds |-> 1..TenantBound,
   pathIds |-> 1..TenantBound,
   searchTerms |-> {nameA, nameB}, tagFilters |-> {<<>>, <<1>>},
   maxFolders |-> TenantBound, maxFiles |-> TenantBound, maxTags |-> TenantBound]

\* a call of an update method with arguments of in
UpdateCall(in) ==
  \/ SetProfileCall(in)
  \/ CreateFolderCall(in)
  \/ RenameFolderCall(in)
  \/ MoveFolderCall(in)
  \/ DeleteFolderCall(in)
  \/ UploadFileCall(in)
  \/ UpdateFileCall(in)
  \/ MoveFileCall(in)
  \/ DeleteFileCall(in)
  \/ CreateTagCall(in)
  \/ UpdateTagCall(in)
  \/ DeleteTagCall(in)

\* a call of a query with arguments of in
QueryCall(in) ==
  \/ GetProfileCall(in)
  \/ GetAllFoldersCall(in)
  \/ GetFolderContentsCall(in)
  \/ GetFolderPathCall(in)
  \/ GetAllFilesCall(in)
  \/ SearchFilesWithTagsCall(in)
  \/ GetAllTagsCall(in)
  \/ GetTagCall(in)
  \/ GetAllFilesInFolderCall(in)

BobCall ==
  \/ SetProfileCall(BobInputs)
  \/ CreateFolderCall(BobInputs)
  \/ UploadFileCall(BobInputs)
  \/ CreateTagCall(BobInputs)
  \/ DeleteTagCall(BobInputs)
  \/ QueryCall(BobInputs)

NextTenants ==
  \/ UpdateCall(AliceInputs)
  \/ BobCall

SpecTenants == Init /\ [][NextTenants]_vars

\* what a principal owns: profile, folders, files, tags and the next ids
ownedBy(p) ==
  [profile |-> IF containsKey(userProfiles, p) THEN Some(userProfiles[p]) ELSE null,
   folders |-> getUserFolders(p), files |-> getUserFiles(p),
   tags |-> getUserTags(p),
   nextFolderId |-> genFolderId(p), nextFileId |-> genFileId(p),
   nextTagId |-> genTagId(p)]

\* the records of a map in the order of their keys, those that pass keep only
listed(m, keep(_)) == SelectSeq(valuesOf(m), keep)

\* the answers the queries owe a principal who asks with arguments of in, as
\* pairs of method and value, from what the principal owns and nothing else
answersOwed(p, in) ==
  LET own == ownedBy(p)
      all(r) == TRUE
  IN {<<"getProfile", own.profile>>,
      <<"getAllFolders", listed(own.folders, all)>>,
      <<"getAllFiles", listed(own.files, all)>>,
      <<"getAllTags", listed(own.tags, all)>>}
     \cup {<<"getFolderContents",
             [folders |-> listed(own.folders, LAMBDA f : f.parentId = c),
              files |-> listed(own.files, LAMBDA f : f.folderId = c)]>> :
           c \in in.parentIds}
     \cup {<<"getFolderPath",
             IF containsKey(own.folders, id)
             THEN CHOOSE path \in {<<>>, <<own.folders[id]>>} :
                    leafToRoot(own.folders, id, path)
             ELSE <<>> >> : id \in in.pathIds}
     \cup {<<"searchFilesWithTags",
             listed(own.files, LAMBDA f : wanted(own.tags, f, term, filter))>> :
           term \in in.searchTerms, filter \in in.tagFilters}
     \cup {<<"getTag", own.tags[id]>> : id \in in.tagIds \cap DOMAIN own.tags}
     \cup {<<"getAllFilesInFolder",
             listed(own.files,
                    LAMBDA f : \/ c = null
                               \/ /\ f.folderId # null
                                  /\ \/ f.folderId = c
                                     \/ isAbove(own.folders, c[1], f.folderId[1]))>> :
           c \in in.parentIds}

queries ==
  {"getProfile", "getAllFolders", "getFolderContents", "getFolderPath",
   "getAllFiles", "searchFilesWithTags", "getAllTags", "getTag",
   "getAllFilesInFolder"}

\* C21: no call of one principal, whether it replies or is rejected, changes
\* what another principal owns (profile, folders, files, tags, next ids): a
\* step that changes what bob owns is no call of alice, and a step that
\* changes what alice owns is no call of bob.  And a query of bob, the only
\* one who asks, is answered from what bob owns, whatever alice has done.
C21_TenantsIsolated ==
  /\ [][/\ ownedBy("bob")' = ownedBy("bob") \/ ~UpdateCall(AliceInputs)
        /\ ownedBy("alice")' = ownedBy("alice") \/ ~BobCall
       ]_vars
  /\ [](response.method \in queries /\ response.status = "reply"
          => <<response.method, response.value>> \in answersOwed("bob", BobInputs))

\* C21 witness: alice has a folder, a file in it and a tag, and bob, who has
\* his own, has just been given his file alone by getAllFiles
C21_BobGivenHisOwn ==
  /\ DOMAIN getUserFolders("alice") = {1}
  /\ DOMAIN getUserFiles("alice") = {1}
  /\ getUserFiles("alice")[1].folderId = Some(1)
  /\ DOMAIN getUserTags("alice") = {1}
  /\ DOMAIN getUserFolders("bob") = {1}
  /\ DOMAIN getUserFiles("bob") = {1}
  /\ DOMAIN getUserTags("bob") = {1}
  /\ response.method = "getAllFiles" /\ response.status = "reply"
  /\ response.value = <<getUserFiles("bob")[1]>>
  /\ response.value # <<getUserFiles("alice")[1]>>

\* ------------------------------------------------------- SpecAnonymous
\* the anonymous principal calls every method, with arguments that are valid
\* and with ones that are not, while alice builds a folder, a file, a tag and
\* a profile

AnonymousBound == 1

AnonymousInputs ==
  [callers |-> {Anonymous},
   folderNames |-> {empty, nameA}, fileNames |-> {empty, nameA},
   tagNames |-> {empty, nameA}, profileNames |-> {empty, nameA},
   descriptions |-> {empty}, colors |-> {"red"},
   sizes |-> {1}, fileTypes |-> {"text"}, blobs |-> {"blob1"},
   tagLists |-> {<<>>, <<1>>},
   folderIds |-> 1..AnonymousBound, parentIds |-> optional(1..AnonymousBound),
   fileIds |-> 1..AnonymousBound, tagIds |-> 1..AnonymousBound,
   pathIds |-> 1..AnonymousBound,
   searchTerms |-> {empty, nameA}, tagFilters |-> {<<>>, <<1>>},
   maxFolders |-> AnonymousBound, maxFiles |-> AnonymousBound,
   maxTags |-> AnonymousBound]

KnownInputs == [AnonymousInputs EXCEPT !.callers = {"alice"}]

AnonymousCall ==
  \/ UpdateCall(AnonymousInputs)
  \/ QueryCall(AnonymousInputs)

NextAnonymous ==
  \/ AnonymousCall
  \/ UpdateCall(KnownInputs)

SpecAnonymous == Init /\ [][NextAnonymous]_vars

\* C22: every method of the actor, query or update, called by the anonymous
\* principal is rejected with "Not authenticated", whatever its arguments (an
\* empty name or an id that does not exist gives no other message), and
\* changes nothing: a step that is not so answered is no anonymous call
C22_AnonymousRejected ==
  [][\/ /\ response'.status = "reject"
        /\ response'.error = <<"Not authenticated">>
        /\ UNCHANGED data
     \/ ~AnonymousCall
    ]_vars

\* C22 witness: alice has a folder, a file and a tag, and a deleteTag call has
\* been rejected for want of authentication
C22_AnonymousDeleteRefused ==
  /\ DOMAIN getUserFolders("alice") = {1}
  /\ DOMAIN getUserFiles("alice") = {1}
  /\ DOMAIN getUserTags("alice") = {1}
  /\ getUserFiles("alice")[1].tagIds = <<1>>
  /\ response.method = "deleteTag" /\ response.status = "reject"
  /\ response.error = <<"Not authenticated">>

\* --------------------------------------------------------- SpecCascade
\* tagged and untagged files, written at one time and their tags deleted at
\* another

CascadeFiles == 2
CascadeTags == 2
CascadeNow == 1

CascadeInputs ==
  [callers |-> {"alice"},
   fileNames |-> {nameA}, descriptions |-> {empty, nameX},
   tagNames |-> {nameB}, colors |-> {"red"},
   sizes |-> {1}, fileTypes |-> {"text"}, blobs |-> {"blob1"},
   tagLists |-> {<<>>, <<1, 2>>},
   parentIds |-> {null}, fileIds |-> 1..CascadeFiles, tagIds |-> 1..CascadeTags,
   maxFiles |-> CascadeFiles, maxTags |-> CascadeTags, maxNow |-> CascadeNow]

NextCascade ==
  \/ UploadFileCall(CascadeInputs)
  \/ UpdateFileCall(CascadeInputs)
  \/ CreateTagCall(CascadeInputs)
  \/ DeleteTagCall(CascadeInputs)
  \/ Tick(CascadeInputs)

SpecCascade == Init /\ [][NextCascade]_vars

\* the fields of a file other than tagIds
besidesTags(f) ==
  [id |-> f.id, name |-> f.name, description |-> f.description,
   folderId |-> f.folderId, size |-> f.size, fileType |-> f.fileType,
   uploadDate |-> f.uploadDate, blob |-> f.blob, modifiedDate |-> f.modifiedDate]

\* C23: a deleteTag(T) that replies leaves the same files in place; a file that
\* carried T keeps its id, name, description, folderId, size, fileType,
\* uploadDate, blob and modifiedDate, and a file that did not carry T is the
\* record it was
C23_CascadeChangesTagsOnly ==
  [][\A T \in CascadeInputs.tagIds :
       /\ response'.method = "deleteTag"
       /\ response'.status = "reply"
       /\ deleteTag("alice", T)
       => LET before == getUserFiles("alice")
              after == userFiles'["alice"]
          IN /\ DOMAIN after = DOMAIN before
             /\ \A f \in DOMAIN before :
                  IF T \in idsOf(before[f].tagIds)
                  THEN besidesTags(after[f]) = besidesTags(before[f])
                  ELSE after[f] = before[f]
    ]_vars

\* C23 witness: file 1, written at time 0 with tags 1 and 2, has lost tag 1 to
\* a deleteTag called at time 1, after file 2 was uploaded, and still shows
\* time 0 as the time of its last change
C23_StrippedButNotTouched ==
  LET files == getUserFiles("alice")
  IN /\ DOMAIN files = {1, 2}
     /\ files[1].tagIds = <<2>> /\ files[1].modifiedDate = 0
     /\ files[2].uploadDate = 1 /\ files[2].tagIds = <<>>
     /\ now = 1
     /\ response.method = "deleteTag" /\ response.status = "reply"

\* ----------------------------------------------------------- SpecDates
\* folders and a file created at one time and renamed or moved at another

DatedFolders == 2
DatedFiles == 1
DatesNow == 1

DateInputs ==
  [callers |-> {"alice"},
   folderNames |-> {nameA, nameB}, fileNames |-> {nameA, nameB},
   descriptions |-> {empty}, tagLists |-> {<<>>},
   sizes |-> {1}, fileTypes |-> {"text"}, blobs |-> {"blob1"},
   folderIds |-> 1..DatedFolders, parentIds |-> optional(1..DatedFolders),
   fileIds |-> 1..DatedFiles,
   maxFolders |-> DatedFolders, maxFiles |-> DatedFiles, maxNow |-> DatesNow]

NextDates ==
  \/ CreateFolderCall(DateInputs)
  \/ RenameFolderCall(DateInputs)
  \/ MoveFolderCall(DateInputs)
  \/ UploadFileCall(DateInputs)
  \/ UpdateFileCall(DateInputs)
  \/ MoveFileCall(DateInputs)
  \/ Tick(DateInputs)

SpecDates == Init /\ [][NextDates]_vars

\* after a call on record id, the record there was before is there with its
\* id and its date of creation, and with the time of the call as the date of
\* its last change if the call replied
keptAndDated(before, after, id, created) ==
  containsKey(before, id)
  => /\ containsKey(after, id)
     /\ after[id].id = before[id].id
     /\ after[id][created] = before[id][created]
     /\ response'.status = "reply" => after[id].modifiedDate = now

\* C24: renameFolder, moveFolder, updateFile and moveFile leave the id of the
\* record they are called on and its date of creation (createdDate of a folder,
\* uploadDate of a file) as they were, and each call that replies sets the
\* modifiedDate of the record to the time of the call
C24_IdAndCreationKept ==
  [][LET folders == getUserFolders("alice")
         files == getUserFiles("alice")
     IN /\ \A id \in DateInputs.folderIds, name \in DateInputs.folderNames :
             response'.method = "renameFolder" /\ renameFolder("alice", id, name)
             => keptAndDated(folders, getUserFolders("alice")', id, "createdDate")
        /\ \A id \in DateInputs.folderIds, parentId \in DateInputs.parentIds :
             response'.method = "moveFolder" /\ moveFolder("alice", id, parentId)
             => keptAndDated(folders, getUserFolders("alice")', id, "createdDate")
        /\ \A id \in DateInputs.fileIds, name \in DateInputs.fileNames :
             response'.method = "updateFile" /\ updateFile("alice", id, name, empty, <<>>)
             => keptAndDated(files, getUserFiles("alice")', id, "uploadDate")
        /\ \A id \in DateInputs.fileIds, folderId \in DateInputs.parentIds :
             response'.method = "moveFile" /\ moveFile("alice", id, folderId)
             => keptAndDated(files, getUserFiles("alice")', id, "uploadDate")
    ]_vars

\* C24 witness: folder 2 and the file, both created at time 0, were moved into
\* folder 1 at time 1, the file last
C24_MovedLater ==
  LET folders == getUserFolders("alice")
      files == getUserFiles("alice")
  IN /\ DOMAIN folders = {1, 2} /\ DOMAIN files = {1}
     /\ folders[2].parentId = Some(1)
     /\ folders[2].createdDate = 0 /\ folders[2].modifiedDate = 1
     /\ files[1].folderId = Some(1)
     /\ files[1].uploadDate = 0 /\ files[1].modifiedDate = 1
     /\ now = 1
     /\ response.method = "moveFile" /\ response.status = "reply"

\* ------------------------------------------------ empty names (SpecFailures)

\* the call rejected with this message and wrote nothing
refusedWith(message) ==
  /\ response'.status = "reject"
  /\ response'.error = message
  /\ UNCHANGED data

\* C25 as stated: createFolder, renameFolder, uploadFile, updateFile, createTag
\* and updateTag called with an empty name always fail with the error of the
\* empty name and create or modify no record
C25_EmptyNameAlwaysValidation ==
  [][/\ \A parentId \in FailInputs.parentIds :
          response'.method = "createFolder" /\ createFolder("alice", empty, parentId)
          => refusedWith(<<"Folder name cannot be empty">>)
     /\ \A id \in FailInputs.folderIds :
          response'.method = "renameFolder" /\ renameFolder("alice", id, empty)
          => refusedWith(<<"Folder name cannot be empty">>)
     /\ \A tagIds \in FailInputs.tagLists, folderId \in FailInputs.parentIds :
          response'.method = "uploadFile"
            /\ uploadFile("alice", empty, empty, tagIds, folderId, 1, "text", "blob1")
          => refusedWith(<<"File name cannot be empty">>)
     /\ \A id \in FailInputs.fileIds, tagIds \in FailInputs.tagLists :
          response'.method = "updateFile" /\ updateFile("alice", id, empty, empty, tagIds)
          => refusedWith(<<"File name cannot be empty">>)
     /\ response'.method = "createTag" /\ createTag("alice", empty, "red")
          => refusedWith(<<"Tag name cannot be empty">>)
     /\ \A id \in FailInputs.tagIds :
          response'.method = "updateTag" /\ updateTag("alice", id, empty, "red")
          => refusedWith(<<"Tag name cannot be empty">>)
    ]_vars

\* C25 amended: the six calls with an empty name always fail and create or
\* modify no record; the error is that of the empty name when the folder id and
\* the tag ids the call is given exist (a record id that does not exist makes
\* no difference), and otherwise is that of the folder id, or else of the
\* first tag id, that does not exist
C25_EmptyNameFails ==
  [][/\ \A parentId \in FailInputs.parentIds :
          response'.method = "createFolder" /\ createFolder("alice", empty, parentId)
          => refusedWith(IF assertFolderExists("alice", parentId)
                         THEN <<"Folder name cannot be empty">>
                         ELSE folderNotFound(parentId))
     /\ \A id \in FailInputs.folderIds :
          response'.method = "renameFolder" /\ renameFolder("alice", id, empty)
          => refusedWith(<<"Folder name cannot be empty">>)
     /\ \A tagIds \in FailInputs.tagLists, folderId \in FailInputs.parentIds :
          response'.method = "uploadFile"
            /\ uploadFile("alice", empty, empty, tagIds, folderId, 1, "text", "blob1")
          => refusedWith(IF ~assertFolderExists("alice", folderId) THEN folderNotFound(folderId)
                         ELSE IF ~assertTagsExist("alice", tagIds) THEN tagNotFound("alice", tagIds)
                         ELSE <<"File name cannot be empty">>)
     /\ \A id \in FailInputs.fileIds, tagIds \in FailInputs.tagLists :
          response'.method = "updateFile" /\ updateFile("alice", id, empty, empty, tagIds)
          => refusedWith(IF assertTagsExist("alice", tagIds)
                         THEN <<"File name cannot be empty">>
                         ELSE tagNotFound("alice", tagIds))
     /\ response'.method = "createTag" /\ createTag("alice", empty, "red")
          => refusedWith(<<"Tag name cannot be empty">>)
     /\ \A id \in FailInputs.tagIds :
          response'.method = "updateTag" /\ updateTag("alice", id, empty, "red")
          => refusedWith(<<"Tag name cannot be empty">>)
    ]_vars

\* C25 witness: with a folder, a file and a tag stored, a call with an empty
\* name was refused for the name
C25_EmptyNameRefused ==
  /\ getUserFolders("alice") # emptyMap
  /\ getUserFiles("alice") # emptyMap
  /\ getUserTags("alice") # emptyMap
  /\ response.status = "reject"
  /\ response.method = "updateFile"
  /\ response.error = <<"File name cannot be empty">>

\* ------------------------------------------- ids not found (SpecFailures)

\* the run from the empty actor uses FailInputs, the one from the nested tree
\* DeepInputs
askedFolderIds == FailInputs.folderIds \cup DeepInputs.folderIds
askedParentIds == FailInputs.parentIds \cup DeepInputs.parentIds

\* the traps that report an id that does not resolve
notFoundTexts ==
  {"Folder not found: ", "Tag not found: ", "Folder not found", "File not found",
   "Tag not found"}

failedNotFound ==
  /\ response'.status = "reject"
  /\ response'.error # <<>>
  /\ response'.error[1] \in notFoundTexts

failedWith(message) ==
  /\ response'.status = "reject"
  /\ response'.error = message

hasFolder(id) == id \in DOMAIN getUserFolders("alice")
hasFile(id) == id \in DOMAIN getUserFiles("alice")
hasTag(id) == id \in DOMAIN getUserTags("alice")
hasTags(tagIds) == \A i \in 1..Len(tagIds) : hasTag(tagIds[i])

\* the calls given no container reply when their other arguments are in order
noneAccepted ==
  /\ \A name \in FailInputs.folderNames \ {empty} :
       response'.method = "createFolder" /\ createFolder("alice", name, null)
       => response'.status = "reply"
  /\ \A id \in askedFolderIds :
       response'.method = "moveFolder" /\ moveFolder("alice", id, null) /\ hasFolder(id)
       => response'.status = "reply"
  /\ \A name \in FailInputs.fileNames \ {empty}, tagIds \in FailInputs.tagLists :
       response'.method = "uploadFile" /\ hasTags(tagIds)
         /\ uploadFile("alice", name, empty, tagIds, null, 1, "text", "blob1")
       => response'.status = "reply"
  /\ \A id \in FailInputs.fileIds :
       response'.method = "moveFile" /\ moveFile("alice", id, null) /\ hasFile(id)
       => response'.status = "reply"

\* the calls given a container, or a tag, that does not exist fail with the
\* trap that names it
containerOrTagNotFound ==
  /\ \A name \in FailInputs.folderNames, parentId \in askedParentIds \ {null} :
       response'.method = "createFolder" /\ ~hasFolder(parentId[1])
         /\ createFolder("alice", name, parentId)
       => failedWith(folderNotFound(parentId))
  /\ \A id \in askedFolderIds, parentId \in askedParentIds \ {null} :
       response'.method = "moveFolder" /\ ~hasFolder(parentId[1])
         /\ moveFolder("alice", id, parentId)
       => failedWith(folderNotFound(parentId))
  /\ \A name \in FailInputs.fileNames, tagIds \in FailInputs.tagLists,
        folderId \in FailInputs.parentIds :
       response'.method = "uploadFile"
         /\ ((folderId # null /\ ~hasFolder(folderId[1])) \/ ~hasTags(tagIds))
         /\ uploadFile("alice", name, empty, tagIds, folderId, 1, "text", "blob1")
       => failedWith(IF folderId # null /\ ~hasFolder(folderId[1])
                     THEN folderNotFound(folderId)
                     ELSE tagNotFound("alice", tagIds))
  /\ \A id \in FailInputs.fileIds, folderId \in FailInputs.parentIds \ {null} :
       response'.method = "moveFile" /\ ~hasFolder(folderId[1])
         /\ moveFile("alice", id, folderId)
       => failedWith(folderNotFound(folderId))
  /\ \A id \in FailInputs.fileIds, name \in FailInputs.fileNames,
        tagIds \in FailInputs.tagLists :
       response'.method = "updateFile" /\ ~hasTags(tagIds)
         /\ updateFile("alice", id, name, empty, tagIds)
       => failedWith(tagNotFound("alice", tagIds))

\* C26 as stated: a container of none is accepted, a container or a tag that
\* does not exist makes createFolder, moveFolder, uploadFile, moveFile and
\* updateFile fail with NotFound, and every rename, move, update and delete of
\* a folder, file or tag id that does not exist fails with NotFound
C26_MissingIdNotFound ==
  [][/\ noneAccepted
     /\ containerOrTagNotFound
     /\ \A id \in FailInputs.folderIds, name \in FailInputs.folderNames :
          response'.method = "renameFolder" /\ ~hasFolder(id)
            /\ renameFolder("alice", id, name)
          => failedNotFound
     /\ \A id \in askedFolderIds, parentId \in askedParentIds :
          response'.method = "moveFolder" /\ ~hasFolder(id)
            /\ moveFolder("alice", id, parentId)
          => failedNotFound
     /\ \A id \in askedFolderIds :
          response'.method = "deleteFolder" /\ ~hasFolder(id) /\ deleteFolder("alice", id)
          => failedNotFound
     /\ \A id \in FailInputs.fileIds, name \in FailInputs.fileNames,
           tagIds \in FailInputs.tagLists :
          response'.method = "updateFile" /\ ~hasFile(id)
            /\ updateFile("alice", id, name, empty, tagIds)
          => failedNotFound
     /\ \A id \in FailInputs.fileIds, folderId \in FailInputs.parentIds :
          response'.method = "moveFile" /\ ~hasFile(id) /\ moveFile("alice", id, folderId)
          => failedNotFound
     /\ \A id \in FailInputs.fileIds :
          response'.method = "deleteFile" /\ ~hasFile(id) /\ deleteFile("alice", id)
          => failedNotFound
     /\ \A id \in FailInputs.tagIds, name \in FailInputs.tagNames :
          response'.method = "updateTag" /\ ~hasTag(id) /\ updateTag("alice", id, name, "red")
          => failedNotFound
     /\ \A id \in FailInputs.tagIds :
          response'.method = "deleteTag" /\ ~hasTag(id) /\ deleteTag("alice", id)
          => failedNotFound
    ]_vars

\* C26 amended: as stated for the containers and the tags; a rename, move,
\* update or delete of a folder, file or tag id that does not exist fails, and
\* fails with NotFound unless the name it is given is empty (renameFolder,
\* updateFile, updateTag: the error of the empty name) or the chain of the
\* folder it is to be moved under has maxFolderDepth folders or more
\* (moveFolder: the error of the depth)
C26_MissingIdFails ==
  [][/\ noneAccepted
     /\ containerOrTagNotFound
     /\ \A id \in FailInputs.folderIds, name \in FailInputs.folderNames :
          response'.method = "renameFolder" /\ ~hasFolder(id)
            /\ renameFolder("alice", id, name)
          => failedWith(IF name = empty THEN <<"Folder name cannot be empty">>
                        ELSE <<"Folder not found">>)
     /\ \A id \in askedFolderIds, parentId \in askedParentIds :
          response'.method = "moveFolder" /\ ~hasFolder(id)
            /\ moveFolder("alice", id, parentId)
          => failedWith(
               IF parentId # null /\ ~hasFolder(parentId[1]) THEN folderNotFound(parentId)
               ELSE IF climb(getUserFolders("alice"), parentId, maxFolderDepth - 1) # null
               THEN <<"Folder hierarchy too deep or circular reference detected">>
               ELSE <<"Folder not found">>)
     /\ \A id \in askedFolderIds :
          response'.method = "deleteFolder" /\ ~hasFolder(id) /\ deleteFolder("alice", id)
          => failedWith(<<"Folder not found">>)
     /\ \A id \in FailInputs.fileIds, name \in FailInputs.fileNames,
           tagIds \in FailInputs.tagLists :
          response'.method = "updateFile" /\ ~hasFile(id)
            /\ updateFile("alice", id, name, empty, tagIds)
          => failedWith(IF ~hasTags(tagIds) THEN tagNotFound("alice", tagIds)
                        ELSE IF name = empty THEN <<"File name cannot be empty">>
                        ELSE <<"File not found">>)
     /\ \A id \in FailInputs.fileIds, folderId \in FailInputs.parentIds :
          response'.method = "moveFile" /\ ~hasFile(id) /\ moveFile("alice", id, folderId)
          => failedNotFound
     /\ \A id \in FailInputs.fileIds :
          response'.method = "deleteFile" /\ ~hasFile(id) /\ deleteFile("alice", id)
          => failedWith(<<"File not found">>)
     /\ \A id \in FailInputs.tagIds, name \in FailInputs.tagNames :
          response'.method = "updateTag" /\ ~hasTag(id) /\ updateTag("alice", id, name, "red")
          => failedWith(IF name = empty THEN <<"Tag name cannot be empty">>
                        ELSE <<"Tag not found">>)
     /\ \A id \in FailInputs.tagIds :
          response'.method = "deleteTag" /\ ~hasTag(id) /\ deleteTag("alice", id)
          => failedWith(<<"Tag not found">>)
    ]_vars

\* C26 witness: with folder 1, a file and a tag stored and no folder 2, a
\* moveFile call into folder 2 was refused for the folder
C26_MovedIntoMissing ==
  /\ hasFolder(1) /\ ~hasFolder(2) /\ hasFile(1) /\ hasTag(1)
  /\ response.method = "moveFile"
  /\ response.status = "reject"
  /\ response.error = folderNotFound(Some(2))

\* ------------------------------------------------------------ SpecGone
\* folders created, renamed, moved and deleted, with more folders created
\* after the deletions

GoneFolders == 3

GoneInputs ==
  [callers |-> {"alice"}, folderNames |-> {empty, nameA},
   folderIds |-> 1..GoneFolders, parentIds |-> optional(1..GoneFolders),
   maxFolders |-> GoneFolders]

NextGone ==
  \/ CreateFolderCall(GoneInputs)
  \/ RenameFolderCall(GoneInputs)
  \/ MoveFolderCall(GoneInputs)
  \/ DeleteFolderCall(GoneInputs)

SpecGone == Init /\ [][NextGone]_vars

\* The ids are issued from 1 upward and a folder leaves the map only in
\* deleteFolder, so the ids below the counter that are not in the map are
\* those of the folders that were deleted, themselves or with an ancestor.
removed(id) == id < peekId(userNextFolderId, "alice") /\ ~hasFolder(id)

\* C27 as stated: a folder id that was removed never resolves again, and every
\* later renameFolder, moveFolder and deleteFolder call on it fails with
\* NotFound
C27_RemovedStaysNotFound ==
  [][\A id \in GoneInputs.folderIds :
       removed(id)
       => /\ removed(id)'
          /\ \A name \in GoneInputs.folderNames :
               response'.method = "renameFolder" /\ renameFolder("alice", id, name)
               => failedNotFound
          /\ \A parentId \in GoneInputs.parentIds :
               response'.method = "moveFolder" /\ moveFolder("alice", id, parentId)
               => failedNotFound
          /\ response'.method = "deleteFolder" /\ deleteFolder("alice", id)
               => failedNotFound
    ]_vars

\* C27 amended: a folder id that was removed never resolves again, and every
\* later renameFolder, moveFolder and deleteFolder call on it fails: with
\* NotFound, except that renameFolder given an empty name fails with the error
\* of the name, and moveFolder under a folder whose chain has maxFolderDepth
\* folders or more with the error of the depth
C27_RemovedStaysRemoved ==
  [][\A id \in GoneInputs.folderIds :
       removed(id)
       => /\ removed(id)'
          /\ \A name \in GoneInputs.folderNames :
               response'.method = "renameFolder" /\ renameFolder("alice", id, name)
               => failedWith(IF name = empty THEN <<"Folder name cannot be empty">>
                             ELSE <<"Folder not found">>)
          /\ \A parentId \in GoneInputs.parentIds :
               response'.method = "moveFolder" /\ moveFolder("alice", id, parentId)
               => failedWith(
                    IF parentId # null /\ ~hasFolder(parentId[1])
                    THEN folderNotFound(parentId)
                    ELSE IF climb(getUserFolders("alice"), parentId, maxFolderDepth - 1) # null
                    THEN <<"Folder hierarchy too deep or circular reference detected">>
                    ELSE <<"Folder not found">>)
          /\ response'.method = "deleteFolder" /\ deleteFolder("alice", id)
               => failedWith(<<"Folder not found">>)
    ]_vars

\* C27 witness: folders 1 and 2 are gone, folder 3 was created since, and a
\* moveFolder call on a removed folder into folder 3 was refused
C27_GoneAfterNewFolder ==
  /\ removed(1) /\ removed(2) /\ hasFolder(3)
  /\ response.method = "moveFolder"
  /\ response.status = "reject"
  /\ response.error = <<"Folder not found">>

\* ---------------------------------------------------------- SpecCycles
\* The loops of deleteFolder, checkAncestor and buildFolderPath, run on every
\* map of parentId links over a few folders: trees in any order of the ids,
\* links to a folder that is not stored, and links that form a cycle.  The
\* calls never build a cycle, so the maps are drawn at the start.

CycleFolders == 3

linkMaps ==
  [1..CycleFolders ->
     [id : {0}, name : {nameA}, parentId : optional(1..(CycleFolders + 1)),
      createdDate : {0}, modifiedDate : {0}]]

\* the records carry the key they are stored under
linked(links) == [k \in DOMAIN links |-> [links[k] EXCEPT !.id = k]]

InitCycles ==
  /\ \E links \in linkMaps : userFolders = mapAdd(emptyMap, "alice", linked(links))
  /\ userNextFolderId = mapAdd(emptyMap, "alice", CycleFolders + 1)
  /\ userProfiles = emptyMap
  /\ userFiles = emptyMap
  /\ userTags = emptyMap
  /\ userNextFileId = emptyMap
  /\ userNextTagId = emptyMap
  /\ now = 0
  /\ response = [method |-> "createFolder", status |-> "reply", error |-> <<>>]

CycleInputs ==
  [callers |-> {"alice"},
   folderIds |-> 1..CycleFolders, parentIds |-> optional(1..CycleFolders),
   pathIds |-> 1..CycleFolders]

NextCycles ==
  \/ MoveFolderCall(CycleInputs)
  \/ DeleteFolderCall(CycleInputs)
  \/ GetFolderPathCall(CycleInputs)

SpecCycles == InitCycles /\ [][NextCycles]_vars

\* the passes of the while (foundNew) loop, the last one, which adds nothing,
\* included
RECURSIVE descendantPasses(_, _)
descendantPasses(folders, folderIdsToDelete) ==
  IF descendantPass(folders, folderIdsToDelete) = folderIdsToDelete THEN 1
  ELSE 1 + descendantPasses(folders, descendantPass(folders, folderIdsToDelete))

\* the walk of isAncestor(ancestorId, descendantId) after n calls
walkAfter(folders, ancestorId, descendantId, n) ==
  checkAncestorCalls(folders, ancestorId,
    [currentId |-> Some(descendantId), depth |-> 0, verdict |-> "walking"], n)

\* the build of getFolderPath(folderId) after n calls
buildAfter(folders, folderId, n) ==
  buildFolderPathCalls(folders,
    [currentId |-> Some(folderId), index |-> 0, pathMap |-> <<>>,
     status |-> "building"], n)

\* the links lead from this folder into a cycle
onCycle(folders, id) ==
  \A n \in 1..(Cardinality(DOMAIN folders) + 1) : climb(folders, Some(id), n) # null

\* C28: the loop of deleteFolder ends within (number of folders + 1) passes,
\* and the walk of isAncestor and the build of getFolderPath end within
\* maxFolderDepth (100) steps, that is maxFolderDepth + 1 calls, on every map
\* of links, cyclic ones included
C28_LoopsEnd ==
  LET folders == getUserFolders("alice")
      ids == 1..(CycleFolders + 1)
  IN /\ \A id \in DOMAIN folders :
          descendantPasses(folders, {id}) <= Cardinality(DOMAIN folders) + 1
     /\ \A ancestorId \in ids, descendantId \in ids :
          /\ walkAfter(folders, ancestorId, descendantId, maxFolderDepth + 1).verdict
               # "walking"
          /\ walkAfter(folders, ancestorId, descendantId, maxFolderDepth + 1).depth
               <= maxFolderDepth
     /\ \A folderId \in ids :
          /\ buildAfter(folders, folderId, maxFolderDepth + 1).status # "building"
          /\ buildAfter(folders, folderId, maxFolderDepth + 1).index <= maxFolderDepth

\* C28 witness: folders 1 and 2 are each other's parent, and the getFolderPath
\* call on one of them was stopped at the depth cap; folder 3 was deleted by a
\* loop that ran on the same links
C28_StoppedOnCycle ==
  LET folders == getUserFolders("alice")
  IN /\ DOMAIN folders = {1, 2}
     /\ folders[1].parentId = Some(2)
     /\ folders[2].parentId = Some(1)
     /\ onCycle(folders, 1)
     /\ response.method = "getFolderPath"
     /\ response.status = "reject"
     /\ response.error = <<"Folder hierarchy too deep or circular reference detected">>

\* -------------------------------------------------------- SpecRemovals
\* folders nested in each other with files in them, removed by deleteFolder
\* only

RemovalFolders == 3
RemovalFiles == 2

RemovalInputs ==
  [callers |-> {"alice"},
   folderNames |-> {nameA}, fileNames |-> {nameA},
   descriptions |-> {empty}, sizes |-> {1}, fileTypes |-> {"text"},
   blobs |-> {"blob1"}, tagLists |-> {<<>>},
   folderIds |-> 1..RemovalFolders, parentIds |-> optional(1..RemovalFolders),
   maxFolders |-> RemovalFolders, maxFiles |-> RemovalFiles]

NextRemovals ==
  \/ CreateFolderCall(RemovalInputs)
  \/ UploadFileCall(RemovalInputs)
  \/ DeleteFolderCall(RemovalInputs)

SpecRemovals == Init /\ [][NextRemovals]_vars

\* the file refers to a folder that this deleteFolder has removed already
refersToRemoved(file, folders, left) ==
  /\ file.folderId # null
  /\ file.folderId[1] \in DOMAIN folders
  /\ file.folderId[1] \notin DOMAIN left

\* C29: taken one removal at a time, deleteFolder never leaves a file whose
\* folderId is a folder it has removed already: the files of the subtree go
\* first, then the folders; the last removal leaves the maps the call leaves
C29_FilesGoFirst ==
  [][\A F \in RemovalInputs.folderIds :
       response'.method = "deleteFolder" /\ response'.status = "reply"
         /\ deleteFolder("alice", F)
       => LET files == getUserFiles("alice")
              folders == getUserFolders("alice")
              folderIdsToDelete == descendantLoop(folders, {F})
              last == removalsOf(files, folderIdsToDelete)
          IN /\ \A n \in 0..last :
                  \A f \in DOMAIN afterRemovals(files, folders, folderIdsToDelete, n).files :
                    ~refersToRemoved(files[f], folders,
                       afterRemovals(files, folders, folderIdsToDelete, n).folders)
             /\ afterRemovals(files, folders, folderIdsToDelete, last).files
                  = getUserFiles("alice")'
             /\ afterRemovals(files, folders, folderIdsToDelete, last).folders
                  = getUserFolders("alice")'
    ]_vars

\* C29 witness: both files were uploaded and three folders created, and
\* deleteFolder calls, the only calls that remove a file here, have left
\* folder 1 and no file
C29_SubtreeGone ==
  /\ DOMAIN getUserFolders("alice") = {1}
  /\ genFolderId("alice") = RemovalFolders + 1
  /\ getUserFiles("alice") = emptyMap
  /\ genFileId("alice") = RemovalFiles + 1
  /\ response.method = "deleteFolder"
  /\ response.status = "reply"

\* ------------------------------------------------ isAncestor (SpecDeep)

\* a is d or is reached from d by parent links
inClosure(folders, a, d) == a = d \/ isAbove(folders, a, d)

\* the chain from d up to its root has at most maxFolderDepth folders
withinCap(folders, d) == climb(folders, Some(d), maxFolderDepth) = null

\* C30: for every stored folder D whose chain has at most maxFolderDepth (100)
\* folders, isAncestor(A, D) returns true when A is D or is above D, and
\* returns false otherwise
C30_AncestorIsClosure ==
  LET folders == getUserFolders("alice")
  IN \A A \in {1, DeepStart} \cup deepNew :
       \A D \in ({DeepStart} \cup deepNew) \cap DOMAIN folders :
         withinCap(folders, D)
         => isAncestor("alice", A, D)
              = IF inClosure(folders, A, D) THEN "true" ELSE "false"

\* ----------------------------------------------------------- SpecFrame
\* folders and files that all ask for the same name, created, renamed and
\* moved among each other

FrameFolders == 3
FrameFiles == 2

FrameInputs ==
  [callers |-> {"alice"},
   folderNames |-> {nameA}, fileNames |-> {nameA},
   descriptions |-> {empty}, sizes |-> {1}, fileTypes |-> {"text"},
   blobs |-> {"blob1"}, tagLists |-> {<<>>},
   folderIds |-> 1..FrameFolders, parentIds |-> optional(1..(FrameFolders - 1)),
   fileIds |-> 1..FrameFiles,
   maxFolders |-> FrameFolders, maxFiles |-> FrameFiles]

NextFrame ==
  \/ CreateFolderCall(FrameInputs)
  \/ RenameFolderCall(FrameInputs)
  \/ MoveFolderCall(FrameInputs)
  \/ UploadFileCall(FrameInputs)
  \/ UpdateFileCall(FrameInputs)
  \/ MoveFileCall(FrameInputs)

SpecFrame == Init /\ [][NextFrame]_vars

\* the map after the call has the records of the map before it, each as it
\* was, and the record of id
onlyWritten(before, after, id) ==
  /\ DOMAIN after = DOMAIN before \cup {id}
  /\ \A k \in DOMAIN before \ {id} : after[k] = before[k]

\* the call replied and wrote the folder id and nothing else
wroteFolder(id) ==
  response'.status = "reply"
  => /\ onlyWritten(getUserFolders("alice"), getUserFolders("alice")', id)
     /\ getUserFiles("alice")' = getUserFiles("alice")

\* the call replied and wrote the file id and nothing else
wroteFile(id) ==
  response'.status = "reply"
  => /\ onlyWritten(getUserFiles("alice"), getUserFiles("alice")', id)
     /\ getUserFolders("alice")' = getUserFolders("alice")

\* the files in the folders of the set
filesIn(files, folderIds) ==
  {f \in DOMAIN files : files[f].folderId # null /\ files[f].folderId[1] \in folderIds}

\* C31: a createFolder, renameFolder, moveFolder, uploadFile, updateFile or
\* moveFile call that replies writes the record it is about and no other:
\* every other folder and file is the record it was, and the folder that was
\* moved has the folders and files below it that it had
C31_OneRecordWritten ==
  [][/\ \A name \in FrameInputs.folderNames, parentId \in FrameInputs.parentIds :
          response'.method = "createFolder" /\ createFolder("alice", name, parentId)
          => wroteFolder(genFolderId("alice"))
     /\ \A id \in FrameInputs.folderIds, name \in FrameInputs.folderNames :
          response'.method = "renameFolder" /\ renameFolder("alice", id, name)
          => wroteFolder(id)
     /\ \A id \in FrameInputs.folderIds, parentId \in FrameInputs.parentIds :
          response'.method = "moveFolder" /\ moveFolder("alice", id, parentId)
          => /\ wroteFolder(id)
             /\ response'.status = "reply"
                => /\ descendantsOf(getUserFolders("alice")', id)
                        = descendantsOf(getUserFolders("alice"), id)
                   /\ filesIn(getUserFiles("alice")',
                              {id} \cup descendantsOf(getUserFolders("alice")', id))
                        = filesIn(getUserFiles("alice"),
                                  {id} \cup descendantsOf(getUserFolders("alice"), id))
     /\ \A name \in FrameInputs.fileNames, folderId \in FrameInputs.parentIds :
          response'.method = "uploadFile"
            /\ uploadFile("alice", name, empty, <<>>, folderId, 1, "text", "blob1")
          => wroteFile(genFileId("alice"))
     /\ \A id \in FrameInputs.fileIds, name \in FrameInputs.fileNames :
          response'.method = "updateFile" /\ updateFile("alice", id, name, empty, <<>>)
          => wroteFile(id)
     /\ \A id \in FrameInputs.fileIds, folderId \in FrameInputs.parentIds :
          response'.method = "moveFile" /\ moveFile("alice", id, folderId)
          => wroteFile(id)
    ]_vars

\* C31 witness: folder 2 was moved into folder 1 with folder 3 and two files
\* in it, which have the names and the places they had
C31_MovedWithSubtree ==
  LET folders == getUserFolders("alice")
      files == getUserFiles("alice")
  IN /\ DOMAIN folders = 1..FrameFolders /\ DOMAIN files = 1..FrameFiles
     /\ folders[1].parentId = null /\ folders[1].name = nameA
     /\ folders[2].parentId = Some(1) /\ folders[2].name = nameA
     /\ folders[3].parentId = Some(2) /\ folders[3].name = nameA
     /\ files[1].folderId = Some(2) /\ files[1].name = nameA
     /\ files[2].folderId = Some(2) /\ files[2].name = numbered(nameA, 1)
     /\ response.method = "moveFolder" /\ response.status = "reply"

\* ------------------------------------------- self-collision (SpecNames)

\* no folder beside the folder id has the name, letter case aside
unusedBeside(folders, id, name) ==
  \A k \in folderSiblings(folders, folders[id].parentId, Some(id)) :
    ~namesEqual(folders[k].name, name)

\* C32: renameFolder to the name the folder has, or to a case variant of it
\* that no folder beside it uses, stores that name, and moveFolder to the
\* parent the folder has keeps the name the folder has; neither adds a suffix
C32_NoSelfCollision ==
  [][LET folders == getUserFolders("alice")
     IN /\ \A id \in NameInputs.folderIds, name \in NameInputs.folderNames :
             response'.method = "renameFolder" /\ hasFolder(id)
               /\ namesEqual(name, folders[id].name)
               /\ (name = folders[id].name \/ unusedBeside(folders, id, name))
               /\ renameFolder("alice", id, name)
             => getUserFolders("alice")'[id].name = name
        /\ \A id \in NameInputs.folderIds :
             response'.method = "moveFolder" /\ hasFolder(id)
               /\ moveFolder("alice", id, folders[id].parentId)
             => getUserFolders("alice")'[id].name = folders[id].name
    ]_vars

\* --------------------------------------------- round trip (SpecNames)

\* the bases the resolver numbers when a name like that of folder k is asked
\* for: the name as it is, and the name without the suffix it is parsed with
basesOf(folders) ==
  {folders[k].name : k \in DOMAIN folders}
    \cup {parseNameSuffix(folders[k].name)[1] : k \in DOMAIN folders}

\* C33: for every base the resolver numbers, the empty one and those ending
\* in a parenthesised group included, and every number n >= 1, parseNameSuffix
\* splits the generated name base # " (" # n # ")" into base and n again
C33_SuffixRoundTrip ==
  \A base \in basesOf(getUserFolders("alice")) :
    \A n \in 1..(MaxSuffix + 1) :
      parseNameSuffix(numbered(base, n)) = <<base, n>>

\* --------------------------------------------------------- SpecOutside
\* nested folders, tagged files inside and outside of them, and a tag

OutsideFolders == 3
OutsideFiles == 2
OutsideTags == 1

OutsideInputs ==
  [callers |-> {"alice"},
   folderNames |-> {nameA}, fileNames |-> {nameA}, tagNames |-> {nameA},
   descriptions |-> {empty}, colors |-> {"red"},
   sizes |-> {1}, fileTypes |-> {"text"}, blobs |-> {"blob1"},
   tagLists |-> tagListsUpTo(OutsideTags),
   folderIds |-> 1..OutsideFolders, parentIds |-> optional(1..(OutsideFolders - 1)),
   maxFolders |-> OutsideFolders, maxFiles |-> OutsideFiles, maxTags |-> OutsideTags]

NextOutside ==
  \/ CreateFolderCall(OutsideInputs)
  \/ UploadFileCall(OutsideInputs)
  \/ CreateTagCall(OutsideInputs)
  \/ DeleteFolderCall(OutsideInputs)

SpecOutside == Init /\ [][NextOutside]_vars

\* the ids the three counters of the principal issue next
countersOf(p) ==
  <<peekId(userNextFolderId, p), peekId(userNextFileId, p), peekId(userNextTagId, p)>>

\* C34: deleteFolder(F) leaves what is outside the subtree of F as it was:
\* the folders that are neither F nor below F, the files that are in no folder
\* or in a folder outside the subtree, every tag, and the three id counters
C34_OutsideUntouched ==
  [][\A F \in OutsideInputs.folderIds :
       response'.method = "deleteFolder" /\ deleteFolder("alice", F)
       => LET folders == getUserFolders("alice")
              files == getUserFiles("alice")
              subtree == {F} \cup descendantsOf(folders, F)
          IN /\ \A k \in DOMAIN folders \ subtree :
                  /\ k \in DOMAIN getUserFolders("alice")'
                  /\ getUserFolders("alice")'[k] = folders[k]
             /\ \A f \in DOMAIN files :
                  files[f].folderId = null \/ files[f].folderId[1] \notin subtree
                  => /\ f \in DOMAIN getUserFiles("alice")'
                     /\ getUserFiles("alice")'[f] = files[f]
             /\ getUserTags("alice")' = getUserTags("alice")
             /\ countersOf("alice")' = countersOf("alice")
    ]_vars

\* C34 witness: a deleteFolder call has removed folders 2 and 3; folder 1, a
\* tagged file in it, a tagged file in no folder and the tag are there
C34_RestStands ==
  LET files == getUserFiles("alice")
  IN /\ DOMAIN getUserFolders("alice") = {1}
     /\ countersOf("alice") = <<OutsideFolders + 1, OutsideFiles + 1, OutsideTags + 1>>
     /\ DOMAIN files = 1..OutsideFiles
     /\ files[1].folderId = Some(1) /\ files[1].tagIds = <<1>>
     /\ files[2].folderId = null /\ files[2].tagIds = <<1>>
     /\ DOMAIN getUserTags("alice") = {1}
     /\ response.method = "deleteFolder" /\ response.status = "reply"

\* ---------------------------------------------------------- SpecUpdate
\* a file uploaded with one of several sizes, types, blobs, folders and tag
\* lists, and updated at a later time

UpdatedFiles == 1
UpdateTags == 2
UpdateNow == 1

UpdateInputs ==
  [callers |-> {"alice"},
   folderNames |-> {nameA}, fileNames |-> {nameA, nameB}, tagNames |-> {nameA},
   descriptions |-> {empty, nameX}, colors |-> {"red"},
   sizes |-> {1, 2}, fileTypes |-> {"text", "image"}, blobs |-> {"blob1", "blob2"},
   tagLists |-> {<<>>, <<1>>, <<2>>},
   parentIds |-> optional({1}), fileIds |-> 1..UpdatedFiles,
   maxFolders |-> 1, maxFiles |-> UpdatedFiles, maxTags |-> UpdateTags,
   maxNow |-> UpdateNow]

NextUpdate ==
  \/ CreateFolderCall(UpdateInputs)
  \/ CreateTagCall(UpdateInputs)
  \/ UploadFileCall(UpdateInputs)
  \/ UpdateFileCall(UpdateInputs)
  \/ Tick(UpdateInputs)

SpecUpdate == Init /\ [][NextUpdate]_vars

\* what updateFile is not given
keptByUpdate(f) == <<f.id, f.folderId, f.size, f.fileType, f.uploadDate, f.blob>>

\* C35: an updateFile call that replies leaves the file's folderId, size,
\* fileType, uploadDate and blob (and id) as they were, stores the description
\* and the tagIds it was given, the tagIds in place of the old ones, and sets
\* modifiedDate to the time of the call
C35_UpdateReplacesThree ==
  [][\A id \in UpdateInputs.fileIds, name \in UpdateInputs.fileNames,
        description \in UpdateInputs.descriptions, tagIds \in UpdateInputs.tagLists :
       response'.method = "updateFile" /\ response'.status = "reply"
         /\ updateFile("alice", id, name, description, tagIds)
       => /\ keptByUpdate(getUserFiles("alice")'[id]) = keptByUpdate(getUserFiles("alice")[id])
          /\ getUserFiles("alice")'[id].description = description
          /\ getUserFiles("alice")'[id].tagIds = tagIds
          /\ getUserFiles("alice")'[id].modifiedDate = now
          /\ DOMAIN getUserFiles("alice")' = DOMAIN getUserFiles("alice")
    ]_vars

\* C35 witness: the file was uploaded at time 0 into folder 1 with size 2,
\* type "image" and the second blob, and an updateFile call at time 1 gave it
\* the description and tag 2 in place of what it had
C35_UpdatedLater ==
  LET files == getUserFiles("alice")
  IN /\ DOMAIN files = {1}
     /\ keptByUpdate(files[1]) = <<1, Some(1), 2, "image", 0, "blob2">>
     /\ files[1].modifiedDate = 1
     /\ files[1].description = nameX
     /\ files[1].tagIds = <<2>>
     /\ response.method = "updateFile" /\ response.status = "reply"

\* ---------------------------------------------------------- SpecWithin
\* nested folders, moved so that a folder may have a smaller id than its
\* parent, with files in them, listed by folder and deleted

WithinFolders == 3
WithinFiles == 2

WithinInputs ==
  [callers |-> {"alice"},
   folderNames |-> {nameA}, fileNames |-> {nameA},
   descriptions |-> {empty}, sizes |-> {1}, fileTypes |-> {"text"},
   blobs |-> {"blob1"}, tagLists |-> {<<>>},
   folderIds |-> 1..WithinFolders, parentIds |-> optional(1..WithinFolders),
   maxFolders |-> WithinFolders, maxFiles |-> WithinFiles]

NextWithin ==
  \/ CreateFolderCall(WithinInputs)
  \/ MoveFolderCall(WithinInputs)
  \/ UploadFileCall(WithinInputs)
  \/ DeleteFolderCall(WithinInputs)
  \/ GetAllFilesInFolderCall(WithinInputs)
  \/ GetAllFilesCall(WithinInputs)

SpecWithin == Init /\ [][NextWithin]_vars

\* the elements of a sequence, which has none of them twice
elementsOf(seq) == {seq[i] : i \in 1..Len(seq)}

withoutRepeats(seq) == Cardinality(elementsOf(seq)) = Len(seq)

\* the files a deleteFolder("alice", F) call in this state removes
removedWith(F) ==
  LET files == getUserFiles("alice")
      ids == fileIdsIn(files, descendantLoop(getUserFolders("alice"), {F}))
  IN {files[ids[i]] : i \in 1..Len(ids)}

\* C36: getAllFilesInFolder(F) for a stored folder F returns, each once, the
\* files that deleteFolder(F) removes, which are the files in F and in the
\* folders below F; getAllFilesInFolder(none) returns the files that
\* getAllFiles returns
C36_ListedIsRemoved ==
  [][LET files == getUserFiles("alice")
         folders == getUserFolders("alice")
     IN /\ \A F \in WithinInputs.folderIds :
             response'.method = "getAllFilesInFolder" /\ hasFolder(F)
               /\ getAllFilesInFolder("alice", Some(F))
             => /\ response'.status = "reply"
                /\ withoutRepeats(response'.value)
                /\ elementsOf(response'.value) = removedWith(F)
                /\ removedWith(F)
                     = {files[f] : f \in filesIn(files, {F} \cup descendantsOf(folders, F))}
        /\ \A F \in WithinInputs.folderIds :
             response'.method = "deleteFolder" /\ response'.status = "reply"
               /\ deleteFolder("alice", F)
             => {files[f] : f \in DOMAIN files \ DOMAIN getUserFiles("alice")'}
                  = elementsOf(filesWithin(files, subfolderLoop(folders, {F}, FALSE), FALSE))
        /\ response'.method = "getAllFilesInFolder" /\ getAllFilesInFolder("alice", null)
             => /\ response'.status = "reply"
                /\ withoutRepeats(response'.value)
                /\ elementsOf(response'.value) = elementsOf(valuesOf(files))
    ]_vars

\* C36 witness: folder 1 is in folder 2 and folder 2 in folder 3, after two
\* moves; one file is in folder 1 and one in no folder, and
\* getAllFilesInFolder has returned the one in folder 1 alone
C36_ListedBelow ==
  LET folders == getUserFolders("alice")
      files == getUserFiles("alice")
  IN /\ DOMAIN folders = 1..WithinFolders /\ DOMAIN files = 1..WithinFiles
     /\ folders[1].parentId = Some(2)
     /\ folders[2].parentId = Some(3)
     /\ folders[3].parentId = null
     /\ files[1].folderId = Some(1)
     /\ files[2].folderId = null
     /\ response.method = "getAllFilesInFolder" /\ response.status = "reply"
     /\ response.value = <<files[1]>>

\* ------------------------------- moveFolder of no folder (SpecFailures)

AbsentFolders == 3

AbsentInputs ==
  [callers |-> {"alice"}, folderNames |-> {nameA},
   folderIds |-> 1..AbsentFolders, parentIds |-> optional(1..AbsentFolders),
   maxFolders |-> AbsentFolders,
   pathIds |-> 1..(AbsentFolders + 1)]

NextAbsent ==
  \/ CreateFolderCall(AbsentInputs)
  \/ DeleteFolderCall(AbsentInputs)
  \/ GetFolderPathCall(AbsentInputs)

SpecAbsent == Init /\ [][NextAbsent]_vars

\* C38: getFolderPath on a folder id that is not stored, because it was never
\* issued or because the folder was deleted, replies with the empty sequence
C38_AbsentPathEmpty ==
  [][\A folderId \in AbsentInputs.pathIds :
       response'.method = "getFolderPath" /\ ~hasFolder(folderId)
         /\ getFolderPath("alice", folderId)
       => /\ response'.status = "reply"
          /\ response'.value = <<>>
    ]_vars

\* C38 witness: folder 1 is stored, folders 2 and 3 were created and deleted,
\* id 4 was never issued, and a getFolderPath call has replied with the empty
\* sequence
C38_AbsentAsked ==
  /\ DOMAIN getUserFolders("alice") = {1}
  /\ peekId(userNextFolderId, "alice") = AbsentFolders + 1
  /\ response.method = "getFolderPath" /\ response.status = "reply"
  /\ response.value = <<>>

\* ------------------------------------ the move-folder dialog (SpecDeep)
\* MoveFolderDialog of the frontend, given the folder that is to be moved and
\* allFolders, the array that getAllFolders has returned.  A search is the
\* queue and the set of getDescendantIds, with status "looping" until the
\* test of the while loop finds the queue empty.

\* the body of the for loop of getDescendantIds, for one folder of the array
descendantFound(folder, currentId, search) ==
  IF folder.parentId = Some(currentId) /\ folder.id \notin search.descendants
  THEN [search EXCEPT !.descendants = @ \cup {folder.id},
                      !.queue = Append(@, folder.id)]
  ELSE search

\* the for loop from allFolders[lo] to allFolders[hi], in the order of the
\* array (halving the range, and reading the search before the range is
\* halved, keeps the evaluation shallow)
RECURSIVE forAllFolders(_, _, _, _, _)
forAllFolders(allFolders, currentId, search, lo, hi) ==
  IF search.status # "looping" \/ lo > hi THEN search
  ELSE IF lo = hi THEN descendantFound(allFolders[lo], currentId, search)
  ELSE forAllFolders(allFolders, currentId,
         forAllFolders(allFolders, currentId, search, lo, (lo + hi) \div 2),
         ((lo + hi) \div 2) + 1, hi)

\* one turn of the while loop: the test of queue.length, queue.shift() and the
\* for loop
getDescendantIdsTurn(allFolders, search) ==
  IF search.status # "looping" THEN search
  ELSE IF search.queue = <<>> THEN [search EXCEPT !.status = "done"]
  ELSE forAllFolders(allFolders, Head(search.queue),
                     [search EXCEPT !.queue = Tail(@)], 1, Len(allFolders))

\* n turns in a row
RECURSIVE getDescendantIdsTurns(_, _, _)
getDescendantIdsTurns(allFolders, search, n) ==
  IF n = 0 \/ search.status # "looping" THEN search
  ELSE IF n = 1 THEN getDescendantIdsTurn(allFolders, search)
  ELSE getDescendantIdsTurns(allFolders,
         getDescendantIdsTurns(allFolders, search, n \div 2), n - (n \div 2))

\* the search of getDescendantIds(folderId, allFolders) after n turns
searchAfter(folderId, allFolders, n) ==
  getDescendantIdsTurns(allFolders,
    [queue |-> <<folderId>>, descendants |-> {}, status |-> "looping"], n)

\* every turn takes one id from the queue, which starts with one id and gets
\* the id of a folder once at most, so Len(allFolders) + 2 turns reach the
\* return
getDescendantIds(folderId, allFolders) ==
  searchAfter(folderId, allFolders, Len(allFolders) + 2).descendants

\* invalidIds of the dialog, for a folder that is given
invalidIds(folder, allFolders) ==
  {folder.id} \cup getDescendantIds(folder.id, allFolders)

\* buildFolderTree(parentId), as the set of the ids of the folders it returns
\* (the sort puts the buttons in the order of the names)
buildFolderTree(allFolders, invalid, parentId) ==
  {allFolders[i].id : i \in {j \in 1..Len(allFolders) :
                               /\ allFolders[j].parentId = parentId
                               /\ allFolders[j].id \notin invalid}}

\* the FolderItem components: tree.rendered has a button each, and those of
\* tree.last render their children next
folderItemsBelow(allFolders, invalid, tree) ==
  [rendered |-> tree.rendered
                  \cup UNION {buildFolderTree(allFolders, invalid, Some(p)) : p \in tree.last},
   last |-> UNION {buildFolderTree(allFolders, invalid, Some(p)) : p \in tree.last}
              \ tree.rendered]

RECURSIVE folderItemsLevels(_, _, _, _)
folderItemsLevels(allFolders, invalid, tree, n) ==
  IF n = 0 \/ tree.last = {} THEN tree
  ELSE IF n = 1 THEN folderItemsBelow(allFolders, invalid, tree)
  ELSE folderItemsLevels(allFolders, invalid,
         folderItemsLevels(allFolders, invalid, tree, n \div 2), n - (n \div 2))

\* the destinations the dialog has a button for: the root option, the
\* rootFolders and the FolderItem components below them
destinations(folder, allFolders) ==
  {null} \cup
  {Some(id) : id \in
     folderItemsLevels(allFolders, invalidIds(folder, allFolders),
       [rendered |-> buildFolderTree(allFolders, invalidIds(folder, allFolders), null),
        last |-> buildFolderTree(allFolders, invalidIds(folder, allFolders), null)],
       Len(allFolders)).rendered}

\* moveFolder(id, ?parentId) traps at its test of the folder itself or at its
\* test of isAncestor
refusedAsLoop(id, parentId) ==
  id = parentId \/ isAncestor("alice", id, parentId) = "true"

\* the folders that the dialog is opened for here
movedInDialog == {1, DeepStart} \cup deepNew

\* C39: with allFolders as getAllFolders returns it, getDescendantIds ends,
\* the dialog offers the root and the stored folders that are neither the
\* moving folder nor below it, and the folders it does not offer are the
\* ones that moveFolder refuses as the folder itself or as a folder below it
C39_DialogHidesRefused ==
  LET folders == getUserFolders("alice")
      allFolders == valuesOf(folders)
  IN \A id \in movedInDialog \cap DOMAIN folders :
       LET offered == destinations(folders[id], allFolders)
       IN /\ searchAfter(id, allFolders, Len(allFolders) + 2).status = "done"
          /\ offered
               = {null} \cup {Some(k) : k \in DOMAIN folders \ ({id} \cup descendantsOf(folders, id))}
          /\ \A parentId \in DOMAIN folders :
               Some(parentId) \notin offered <=> refusedAsLoop(id, parentId)


====
